---- MODULE Spec2Model ----
(***************************************************************************)
(* Model of the eBay order dashboard page (src/app/page.tsx): the title    *)
(* classifier, the lot-count parser, the stable row id, the two cost       *)
(* tables with their localStorage hooks, and the Page component's state.   *)
(*                                                                         *)
(* Conventions                                                             *)
(*  - a JS string is a sequence of one-character strings;                  *)
(*  - a JS number that is a money amount is an integer count of            *)
(*    hundredths (0.7 is 70, 500 is 50000); lot counts are plain integers; *)
(*  - a JS value that may be a non-number or a non-finite number is a      *)
(*    record [t, n, s]: t = "num" (finite, n in hundredths), "big" (the    *)
(*    finite number n * 1e308), "inf" (n = 1 or -1), "nan", "str" (the     *)
(*    string s), "null" or "undef".                                        *)
(***************************************************************************)
EXTENDS Integers, Sequences, FiniteSets, TLC

VARIABLES
  arg,              \* pure-function harness: the title handed to the functions
  out,              \* pure-function harness: what they returned
  rows,             \* Page: const [rows, setRows] = useState<Row[]>([])
  isParsing,        \* Page: const [isParsing, setIsParsing]
  tab,              \* Page: const [tab, setTab]
  overviewView,     \* Page: const [overviewView, setOverviewView]
  toasts,           \* useToast: the toast types pushed so far (newest last)
  costMap,          \* useLocalStorageState(LS_COST_MAP_KEY).value
  rowCostOverride,  \* useLocalStorageState(LS_ROW_OVERRIDE_KEY).value
  stored,           \* window.localStorage: key -> document, or NoDoc
  loadedRef,        \* useLocalStorageState.loadedRef.current, per key
  pending,          \* per key: state updates queued by setValue, not yet rendered
  mount,            \* position of the component in its mount sequence
  strictMode,       \* React runs the mount effects twice (development StrictMode)
  filters,          \* Page: const [filters, dispatch] = useReducer(filtersReducer, ..)
  upload,           \* onFile: the file being read while the handler awaits
  ops,              \* number of user operations so far
  lastOp            \* the handler that ran last, with its arguments

\* the two useLocalStorageState hooks and the storage behind them
hookVars == <<costMap, rowCostOverride, stored, loadedRef, pending, mount, strictMode>>

\* the rest of the Page component's state
uiVars == <<rows, isParsing, tab, overviewView, toasts, filters, upload>>

pageVars == <<uiVars, hookVars, ops, lastOp>>

vars == <<arg, out, pageVars>>

-----------------------------------------------------------------------------
(* Bounds of the model *)

\* words per generated rarity title
MaxTitleWords == 3
\* digits of the integer part of a generated lot numeral
MaxIntDigits == 2
\* toasts on screen at once
MaxToasts == 2
\* user operations in one behaviour of the page
MaxOps == 3
\* rows of a list handed to filterByDate or buildDailySeries
MaxCalcRows == 3
\* rows of distinct groups in a list handed to agg
MaxTopRows == 12
\* amounts in an array handed to percentile
MaxSample == 11
\* base rows of a report
MaxReportRows == 21
\* rows of the longest sheet of the paging model
MaxPagingRows == 45

-----------------------------------------------------------------------------
(* Characters and strings *)

Ascii ==
  <<" ","!","\"","#","$","%","&","'","(",")","*","+",",","-",".","/",
    "0","1","2","3","4","5","6","7","8","9",":",";","<","=",">","?","@",
    "A","B","C","D","E","F","G","H","I","J","K","L","M","N","O","P","Q",
    "R","S","T","U","V","W","X","Y","Z","[","\\","]","^","_",
    "a","b","c","d","e","f","g","h","i","j","k","l","m","n","o","p","q",
    "r","s","t","u","v","w","x","y","z","{","|","}","~">>

\* String.prototype.charCodeAt for the characters the model uses: Ascii lists
\* the printable characters 32..126 in code order, without the grave accent (96)
charCodeAt ==
  [c \in {Ascii[i] : i \in 1..Len(Ascii)} \cup {"\t"} |->
     IF c = "\t" THEN 9
     ELSE LET i == CHOOSE j \in 1..Len(Ascii) : Ascii[j] = c
          IN  IF i <= 64 THEN 31 + i ELSE 32 + i]

\* regex \s
IsSpace(c) == charCodeAt[c] = 32 \/ charCodeAt[c] = 9

\* regex \d
IsDigit(c) == charCodeAt[c] >= 48 /\ charCodeAt[c] <= 57

\* regex \w
IsWordChar(c) ==
  LET k == charCodeAt[c]
  IN  \/ (k >= 48 /\ k <= 57)
      \/ (k >= 65 /\ k <= 90)
      \/ k = 95
      \/ (k >= 97 /\ k <= 122)

\* the /i flag: compare letters by their lower-case code
LowerCode(c) ==
  LET k == charCodeAt[c] IN IF k >= 65 /\ k <= 90 THEN k + 32 ELSE k

\* a missing title (undefined)
Undefined == <<"undefined">>

\* title || ""
OrEmpty(title) == IF title = Undefined THEN <<>> ELSE title

RECURSIVE DropSpaces(_)
DropSpaces(s) ==
  IF s # <<>> /\ IsSpace(Head(s)) THEN DropSpaces(Tail(s)) ELSE s

\* .replace(/\s+/g, " ")
RECURSIVE CollapseSpaces(_)
CollapseSpaces(s) ==
  IF s = <<>> THEN <<>>
  ELSE IF IsSpace(Head(s)) THEN <<" ">> \o CollapseSpaces(DropSpaces(s))
  ELSE <<Head(s)>> \o CollapseSpaces(Tail(s))

RECURSIVE DropTrailingSpaces(_)
DropTrailingSpaces(s) ==
  IF s # <<>> /\ IsSpace(s[Len(s)])
  THEN DropTrailingSpaces(SubSeq(s, 1, Len(s) - 1))
  ELSE s

\* .trim()
Trim(s) == DropTrailingSpaces(DropSpaces(s))

\* (title || "").replace(/\s+/g, " ").trim()
NormTitle(title) == Trim(CollapseSpaces(OrEmpty(title)))

-----------------------------------------------------------------------------
(* Regular-expression matching, position by position *)

\* t[i] is a word character (positions outside the string are not)
WordAt(t, i) == i >= 1 /\ i <= Len(t) /\ IsWordChar(t[i])

\* \b between t[i] and t[i+1], i in 0..Len(t)
Boundary(t, i) == WordAt(t, i) # WordAt(t, i + 1)

\* the literal w (lower case) matches t at position i, ignoring case
LitAt(t, i, w) ==
  /\ i >= 1
  /\ i + Len(w) - 1 <= Len(t)
  /\ \A k \in 1..Len(w) : LowerCode(t[i + k - 1]) = charCodeAt[w[k]]

\* the first position >= i that holds no white space: a greedy \s*
RECURSIVE SkipSpaces(_, _)
SkipSpaces(t, i) ==
  IF i <= Len(t) /\ IsSpace(t[i]) THEN SkipSpaces(t, i + 1) ELSE i

\* /\bw\b/i.test(t)
HasWord(t, w) ==
  \E i \in 1..Len(t) :
    Boundary(t, i - 1) /\ LitAt(t, i, w) /\ Boundary(t, i + Len(w) - 1)

\* /\bw1\s*w2\b/i.test(t)
HasWordPair(t, w1, w2) ==
  \E i \in 1..Len(t) :
    /\ Boundary(t, i - 1)
    /\ LitAt(t, i, w1)
    /\ LET j == SkipSpaces(t, i + Len(w1))
       IN  LitAt(t, j, w2) /\ Boundary(t, j + Len(w2) - 1)

-----------------------------------------------------------------------------
(* classifyTitleGroup *)

\* the feature record "has" of classifyTitleGroup, for a normalised title t
Has(t) ==
  [ kfc     |-> HasWord(t, <<"k","f","c">>),
    sealed  |-> HasWord(t, <<"s","e","a","l","e","d">>),
    tagTeam |-> HasWordPair(t, <<"t","a","g">>, <<"t","e","a","m">>),
    trainer |-> \/ HasWord(t, <<"t","r","a","i","n","e","r">>)
                \/ HasWord(t, <<"s","u","p","p","o","r","t","e","r">>)
                \/ HasWord(t, <<"i","t","e","m">>),
    ocd     |-> HasWord(t, <<"o","c","d">>),
    masterBall  |-> HasWordPair(t, <<"m","a","s","t","e","r">>, <<"b","a","l","l">>),
    logoReverse |-> /\ HasWord(t, <<"l","o","g","o">>)
                    /\ HasWord(t, <<"r","e","v","e","r","s","e">>),
    ballHolo |-> /\ HasWord(t, <<"b","a","l","l">>)
                 /\ HasWord(t, <<"h","o","l","o">>),
    mix  |-> HasWord(t, <<"m","i","x">>),
    ar   |-> HasWord(t, <<"a","r">>),
    chr  |-> HasWord(t, <<"c","h","r">>),
    sr   |-> HasWord(t, <<"s","r">>),
    hr   |-> HasWord(t, <<"h","r">>),
    rrr  |-> HasWord(t, <<"r","r","r">>),
    rr   |-> HasWord(t, <<"r","r">>),
    vmax |-> HasWord(t, <<"v","m","a","x">>),
    japanese |-> HasWord(t, <<"j","a","p","a","n","e","s","e">>),
    otherRarity |->
      \/ HasWord(t, <<"r","r","r","r">>)
      \/ HasWord(t, <<"u","r">>)
      \/ HasWord(t, <<"s","s","r">>)
      \/ HasWord(t, <<"s","a","r">>)
      \/ HasWord(t, <<"c","s","r">>)
      \/ HasWord(t, <<"a","c","e">>)
      \/ HasWord(t, <<"e","x">>)
      \/ HasWord(t, <<"g","o","l","d">>)
      \/ HasWord(t, <<"s","e","c","r","e","t">>) ]

\* a faulty variant of the rule list: Ball Holo is tried before Master Ball
TitleRulesSwapped(has) ==
  << [name |-> "KFC Pack",  test |-> has.kfc],
     [name |-> "Sealed",    test |-> has.sealed],
     [name |-> "TAG TEAM",  test |-> has.tagTeam],
     [name |-> "Trainer Item / Supporter", test |-> has.trainer],
     [name |-> "OCD",       test |-> has.ocd],
     [name |-> "Ball Holo", test |-> has.ballHolo],
     [name |-> "Logo Reverse Holo", test |-> has.logoReverse],
     [name |-> "Master Ball", test |-> has.masterBall],
     [name |-> "Mix",       test |-> has.mix],
     [name |-> "AR/CHR",    test |-> has.ar \/ has.chr],
     [name |-> "SR/HR",     test |-> (has.sr \/ has.hr) /\ ~has.ocd],
     [name |-> "Japanese",  test |-> has.japanese],
     [name |-> "RRR+VMAX",  test |-> has.rrr /\ has.vmax /\ ~has.rr /\ ~has.otherRarity],
     [name |-> "RR+RRR",    test |-> has.rr /\ has.rrr /\ ~has.otherRarity],
     [name |-> "RR Only",   test |-> has.rr /\ ~has.rrr /\ ~has.otherRarity] >>

\* the ordered rule list, each test already applied to the features
TitleRules(has) ==
  << [name |-> "KFC Pack",  test |-> has.kfc],
     [name |-> "Sealed",    test |-> has.sealed],
     [name |-> "TAG TEAM",  test |-> has.tagTeam],
     [name |-> "Trainer Item / Supporter", test |-> has.trainer],
     [name |-> "OCD",       test |-> has.ocd],
     [name |-> "Master Ball", test |-> has.masterBall],
     [name |-> "Logo Reverse Holo", test |-> has.logoReverse],
     [name |-> "Ball Holo", test |-> has.ballHolo],
     [name |-> "Mix",       test |-> has.mix],
     [name |-> "AR/CHR",    test |-> has.ar \/ has.chr],
     [name |-> "SR/HR",     test |-> (has.sr \/ has.hr) /\ ~has.ocd],
     [name |-> "Japanese",  test |-> has.japanese],
     [name |-> "RRR+VMAX",  test |-> has.rrr /\ has.vmax /\ ~has.rr /\ ~has.otherRarity],
     [name |-> "RR+RRR",    test |-> has.rr /\ has.rrr /\ ~has.otherRarity],
     [name |-> "RR Only",   test |-> has.rr /\ ~has.rrr /\ ~has.otherRarity] >>

\* for (const r of rules) if (r.test(t)) return r.name; return "Other";
RECURSIVE FirstMatch(_, _)
FirstMatch(rules, i) ==
  IF i > Len(rules) THEN "Other"
  ELSE IF rules[i].test THEN rules[i].name
  ELSE FirstMatch(rules, i + 1)

\* a faulty variant: the final return "Other" is missing
classifyTitleGroupNoFallback(title) ==
  LET r == TitleRules(Has(NormTitle(title)))
  IN  IF \E i \in 1..Len(r) : r[i].test THEN FirstMatch(r, 1) ELSE ""

classifyTitleGroup(title) == FirstMatch(TitleRules(Has(NormTitle(title))), 1)

-----------------------------------------------------------------------------
(* parseLotCountFromTitle *)

DigitAt(t, i) == i >= 1 /\ i <= Len(t) /\ IsDigit(t[i])

\* the last position of the run of digits that starts at i
RECURSIVE DigitsEnd(_, _)
DigitsEnd(t, i) == IF DigitAt(t, i + 1) THEN DigitsEnd(t, i + 1) ELSE i

\* the end positions that (\d+(?:\.\d{1,2})?) can take from position i, in the
\* order a backtracking matcher tries them: the longest run of digits first,
\* and for each run two fraction digits, then one, then no fraction
RECURSIVE NumeralEnds(_, _, _)
NumeralEnds(t, i, e) ==
  IF e < i THEN <<>>
  ELSE LET dot == e + 1 <= Len(t) /\ t[e + 1] = "."
       IN  (IF dot /\ DigitAt(t, e + 2) /\ DigitAt(t, e + 3) THEN <<e + 3>> ELSE <<>>)
           \o (IF dot /\ DigitAt(t, e + 2) THEN <<e + 2>> ELSE <<>>)
           \o <<e>>
           \o NumeralEnds(t, i, e - 1)

\* what must follow the numeral: \s*lot\b in the leading form, \b in the
\* trailing form
RestMatches(t, e, leading) ==
  IF leading
  THEN LET j == SkipSpaces(t, e + 1)
       IN  LitAt(t, j, <<"l","o","t">>) /\ Boundary(t, j + 2)
  ELSE Boundary(t, e)

\* the first end position in ends after which the rest of the pattern
\* matches, or 0
RECURSIVE FirstEnd(_, _, _, _)
FirstEnd(t, ends, k, leading) ==
  IF k > Len(ends) THEN 0
  ELSE IF RestMatches(t, ends[k], leading) THEN ends[k]
  ELSE FirstEnd(t, ends, k + 1, leading)

\* t.match(/\b(\d+(?:\.\d{1,2})?)\s*lot\b/i): group 1 of the match that starts
\* at position i, or <<>>
LeadingAt(t, i) ==
  IF Boundary(t, i - 1) /\ DigitAt(t, i)
  THEN LET e == FirstEnd(t, NumeralEnds(t, i, DigitsEnd(t, i)), 1, TRUE)
       IN  IF e = 0 THEN <<>> ELSE SubSeq(t, i, e)
  ELSE <<>>

\* t.match(/\blot\s*(\d+(?:\.\d{1,2})?)\b/i): group 1 of the match that starts
\* at position i, or <<>>
TrailingAt(t, i) ==
  IF Boundary(t, i - 1) /\ LitAt(t, i, <<"l","o","t">>)
  THEN LET j == SkipSpaces(t, i + 3)
       IN  IF DigitAt(t, j)
           THEN LET e == FirstEnd(t, NumeralEnds(t, j, DigitsEnd(t, j)), 1, FALSE)
                IN  IF e = 0 THEN <<>> ELSE SubSeq(t, j, e)
           ELSE <<>>
  ELSE <<>>

\* String.prototype.match without /g: group 1 of the match at the leftmost
\* position, or <<>>
RECURSIVE LeftmostMatch(_, _, _)
LeftmostMatch(t, i, leading) ==
  LET m == IF leading THEN LeadingAt(t, i) ELSE TrailingAt(t, i)
  IN  IF i > Len(t) THEN <<>>
      ELSE IF m # <<>> THEN m
      ELSE LeftmostMatch(t, i + 1, leading)

\* the value of a string of digits
RECURSIVE DigitsValue(_)
DigitsValue(ds) ==
  IF ds = <<>> THEN 0
  ELSE 10 * DigitsValue(SubSeq(ds, 1, Len(ds) - 1)) + (charCodeAt[ds[Len(ds)]] - 48)

\* raw.includes(".")
IncludesDot(raw) == \E k \in 1..Len(raw) : raw[k] = "."

\* Number(raw) for a numeral digits[.d[d]], in hundredths
NumberOf(raw) ==
  IF IncludesDot(raw)
  THEN LET d    == CHOOSE k \in 1..Len(raw) : raw[k] = "."
           frac == SubSeq(raw, d + 1, Len(raw))
       IN  100 * DigitsValue(SubSeq(raw, 1, d - 1))
           + (IF Len(frac) = 1 THEN 10 * DigitsValue(frac) ELSE DigitsValue(frac))
  ELSE 100 * DigitsValue(raw)

\* Math.round of a value given in hundredths: halves go up
MathRound(h) == (h + 50) \div 100

\* let m = t.match(leading); if (!m) m = t.match(trailing): m[1], or <<>>
LotNumeral(t) ==
  LET m == LeftmostMatch(t, 1, TRUE)
  IN  IF m # <<>> THEN m ELSE LeftmostMatch(t, 1, FALSE)

\* the function with the test n < 10 of the scaling branch written n <= 10
parseLotCountFromTitleLe10(title) ==
  LET raw    == LotNumeral(NormTitle(title))
      n      == NumberOf(raw)
      scaled == n
  IN  IF raw = <<>> THEN 1
      ELSE IF n <= 0 THEN 1
      ELSE IF IncludesDot(raw) /\ n <= 1000 /\ scaled >= 10 /\ scaled <= 5000
           THEN scaled
      ELSE MathRound(n)

\* n is Number(raw) in hundredths, so Math.round(n * 100) is n itself
parseLotCountFromTitle(title) ==
  LET raw    == LotNumeral(NormTitle(title))
      n      == NumberOf(raw)
      scaled == n
  IN  IF raw = <<>> THEN 1
      ELSE IF n <= 0 THEN 1
      ELSE IF IncludesDot(raw) /\ n < 1000 /\ scaled >= 10 /\ scaled <= 5000
           THEN scaled
      ELSE MathRound(n)

-----------------------------------------------------------------------------
(* The titles the functions are applied to *)

\* ws[1] sep ws[2] sep ... ws[n]
RECURSIVE Join(_, _)
Join(ws, sep) ==
  IF ws = <<>> THEN <<>>
  ELSE IF Len(ws) = 1 THEN ws[1]
  ELSE ws[1] \o sep \o Join(Tail(ws), sep)

\* all sequences of 1..n elements of S
SeqsUpTo(S, n) == UNION {[1..k -> S] : k \in 1..n}

KeyWords ==
  { <<"K","F","C">>, <<"S","e","a","l","e","d">>, <<"T","a","g"," ","T","e","a","m">>,
    <<"T","a","g","T","e","a","m">>, <<"T","r","a","i","n","e","r">>,
    <<"S","u","p","p","o","r","t","e","r">>, <<"I","t","e","m">>, <<"O","C","D">>,
    <<"M","a","s","t","e","r"," ","B","a","l","l">>,
    <<"M","A","S","T","E","R","B","A","L","L">>, <<"L","o","g","o">>,
    <<"R","e","v","e","r","s","e">>, <<"B","a","l","l">>, <<"H","o","l","o">>,
    <<"m","i","x">>, <<"A","R">>, <<"C","H","R">>, <<"S","R">>, <<"H","R">>,
    <<"R","R","R">>, <<"R","R">>, <<"V","M","A","X">>,
    <<"J","a","p","a","n","e","s","e">>, <<"P","i","k","a","c","h","u">>,
    <<"B","a","l","l","s">>, <<"R","R","x">>, <<"P","a","c","k">> }

OtherRarityWords ==
  { <<"R","R","R","R">>, <<"U","R">>, <<"S","S","R">>, <<"S","A","R">>,
    <<"C","S","R">>, <<"A","C","E">>, <<"e","x">>, <<"G","o","l","d">>,
    <<"S","e","c","r","e","t">> }

RarityWords ==
  { <<"R","R">>, <<"R","R","R">>, <<"V","M","A","X">>, <<"U","R">>,
    <<"e","x">>, <<"G","o","l","d">>, <<"P","i","k","a","c","h","u">> }

\* one or two words, written with a blank, a tab and blanks, a plus sign or
\* nothing between them
PairTitles ==
  LET W == KeyWords \cup OtherRarityWords
  IN  W \cup { a \o sep \o b : a \in W, b \in W,
                               sep \in {<<" ">>, <<"\t"," ">>, <<"+">>, <<>>} }

\* up to MaxTitleWords rarity words separated by blanks
RarityTitles == { Join(ws, <<" ">>) : ws \in SeqsUpTo(RarityWords, MaxTitleWords) }

\* the numerals digits[.d[d]] with up to MaxIntDigits digits before the point
LotNumerals ==
  LET ints  == SeqsUpTo({"0", "1", "5"}, MaxIntDigits)
      fracs == {<<>>} \cup { <<".">> \o f : f \in SeqsUpTo({"0", "4", "5"}, 2) }
  IN  { i \o f : i \in ints, f \in fracs }
      \cup { <<"1","0","0">>, <<"1","3","7">>, <<"4","2">>, <<"3">>,
             <<"1","2",".","5">>, <<"9",".","9","9">> }

\* a numeral next to the word "lot", in the ways titles write it
LotTitles ==
  UNION { { n \o <<" ","L","o","t">>,
            n \o <<"L","o","t">>,
            n \o <<"\t"," "," ","L","O","T">>,
            <<"L","o","t"," ">> \o n,
            <<"l","o","t">> \o n,
            <<"-">> \o n \o <<" ","L","o","t">>,
            n \o <<" ","L","o","t","s">>,
            n \o <<" ","L","o","t"," ","B","u","n","d","l","e">>,
            <<"C","a","r","d"," ","x">> \o n \o <<" ","l","o","t">>,
            n \o <<" ","L","o","t"," ","M","a","s","t","e","r"," ","B","a","l","l"," ","H","o","l","o">> }
          : n \in LotNumerals }

\* the titles of the specification's examples that the sets above lack
ExampleTitles ==
  { <<"p","l","a","i","n"," ","t","i","t","l","e",","," ","n","o"," ","l","o","t">>,
    <<"R","R"," ","O","n","l","y"," ","p","a","c","k">>,
    <<"m","y","s","t","e","r","y"," ","b","u","n","d","l","e">>,
    <<"S","e","a","l","e","d"," ","M","a","s","t","e","r"," ","B","a","l","l"," ","H","o","l","o">>,
    <<"M","a","s","t","e","r"," ","B","a","l","l"," ","H","o","l","o">>,
    <<" "," ","R","R"," "," ">>,
    <<>>,
    Undefined }

TitleInputs == PairTitles \cup RarityTitles \cup LotTitles \cup ExampleTitles

-----------------------------------------------------------------------------
(* The functions of a title, applied to every title of TitleInputs *)

NotCalled == [group |-> "", lot |-> 0, calls |-> {}]

InitTitle ==
  /\ arg \in TitleInputs
  /\ out = NotCalled
  /\ rows = <<>>
  /\ isParsing = FALSE
  /\ tab = "overview"
  /\ overviewView = "top10-profit"
  /\ toasts = <<>>
  /\ costMap = <<>>
  /\ rowCostOverride = <<>>
  /\ stored = <<>>
  /\ loadedRef = <<>>
  /\ pending = <<>>
  /\ mount = "none"
  /\ strictMode = FALSE
  /\ filters = <<>>
  /\ upload = <<>>
  /\ ops = 0
  /\ lastOp = <<>>

CallClassify ==
  /\ "classify" \notin out.calls
  /\ out' = [out EXCEPT !.group = classifyTitleGroup(arg),
                        !.calls = @ \cup {"classify"}]
  /\ UNCHANGED <<arg, pageVars>>

CallParseLot ==
  /\ "lot" \notin out.calls
  /\ out' = [out EXCEPT !.lot = parseLotCountFromTitle(arg),
                        !.calls = @ \cup {"lot"}]
  /\ UNCHANGED <<arg, pageVars>>

NextTitle == CallClassify \/ CallParseLot

SpecTitle == InitTitle /\ [][NextTitle]_vars

-----------------------------------------------------------------------------
(* Properties of classifyTitleGroup and parseLotCountFromTitle (SpecTitle) *)

Classified == "classify" \in out.calls
LotParsed  == "lot" \in out.calls

\* the closed taxonomy the specification names
TitleGroups ==
  { "KFC Pack", "Sealed", "TAG TEAM", "Trainer Item / Supporter", "OCD",
    "Master Ball", "Logo Reverse Holo", "Ball Holo", "Mix", "AR/CHR", "SR/HR",
    "Japanese", "RRR+VMAX", "RR+RRR", "RR Only", "Other" }

\* C1: classifyTitleGroup is total: for every title, the empty and the missing
\* one included, the label returned is one of the sixteen labels of the
\* taxonomy, and it is "Other" exactly when no rule's predicate holds.
C1_Total ==
  Classified =>
    LET rules == TitleRules(Has(NormTitle(arg)))
    IN  /\ out.group \in TitleGroups
        /\ (out.group = "Other") <=> (\A i \in 1..Len(rules) : ~rules[i].test)

\* C1 witness: the missing title has been classified, as "Other"
C1_Witness == Classified /\ arg = Undefined /\ out.group = "Other"

\* group is the label of the earliest rule of rules whose predicate holds
FirstMatchWins(rules, group) ==
  \A i \in 1..Len(rules) :
    (rules[i].test /\ \A j \in 1..(i - 1) : ~rules[j].test)
      => group = rules[i].name

\* C2 as stated: first match wins, and every title that matches both the
\* Master Ball and the Ball Holo predicate is labelled "Master Ball".
C2_Original ==
  Classified =>
    LET has == Has(NormTitle(arg))
    IN  /\ FirstMatchWins(TitleRules(has), out.group)
        /\ (has.masterBall /\ has.ballHolo) => out.group = "Master Ball"

\* C2 amended: first match wins; a title that matches both the Master Ball and
\* the Ball Holo predicate is never labelled "Ball Holo", and it is labelled
\* "Master Ball" whenever none of the five rules ahead of Master Ball (KFC
\* Pack, Sealed, TAG TEAM, Trainer Item / Supporter, OCD) matches it.
C2_FirstMatch ==
  Classified =>
    LET has == Has(NormTitle(arg))
    IN  /\ FirstMatchWins(TitleRules(has), out.group)
        /\ (has.masterBall /\ has.ballHolo) =>
             /\ out.group # "Ball Holo"
             /\ (~has.kfc /\ ~has.sealed /\ ~has.tagTeam /\ ~has.trainer /\ ~has.ocd)
                  => out.group = "Master Ball"

\* C2 witness: "Master Ball Holo" has been classified, as "Master Ball"
C2_Witness ==
  /\ Classified
  /\ arg = <<"M","a","s","t","e","r"," ","B","a","l","l"," ","H","o","l","o">>
  /\ out.group = "Master Ball"

\* C4: a title labelled with a composite rarity category holds exactly the
\* markers the label names among RR, RRR and VMAX, and no other-rarity marker.
C4_OnlyMarkers ==
  Classified =>
    LET has == Has(NormTitle(arg))
    IN  /\ out.group = "RR Only" =>
              has.rr /\ ~has.rrr /\ ~has.vmax /\ ~has.otherRarity
        /\ out.group = "RR+RRR" =>
              has.rr /\ has.rrr /\ ~has.vmax /\ ~has.otherRarity
        /\ out.group = "RRR+VMAX" =>
              has.rrr /\ has.vmax /\ ~has.rr /\ ~has.otherRarity

\* C5: parseLotCountFromTitle returns an integer >= 1 for every title, and 1
\* when neither form of the pattern matches.
C5_PositiveLot ==
  LotParsed =>
    /\ out.lot >= 1
    /\ LotNumeral(NormTitle(arg)) = <<>> => out.lot = 1

\* the value the decimal-typo rule prescribes for a numeral of value v
\* (hundredths) written with or without a decimal point
TypoRule(v, hasPoint) ==
  IF hasPoint /\ v < 10 * 100 /\ v >= 10 /\ v <= 5000
  THEN v
  ELSE (IF v % 100 >= 50 THEN v \div 100 + 1 ELSE v \div 100)

\* C6: for every matched numeral of value v > 0 the result is round(v * 100)
\* if the numeral has a decimal point, v < 10 and that value lies in
\* [10, 5000], and round(v) otherwise; "1.50 Lot" gives 150, "0.5 Lot" 50,
\* "100 Lot" and "Lot 100" 100, and "12.5 Lot" is not scaled.
C6_DecimalTypo ==
  LotParsed =>
    LET raw == LotNumeral(NormTitle(arg))
    IN  /\ (raw # <<>> /\ NumberOf(raw) > 0)
             => out.lot = TypoRule(NumberOf(raw), IncludesDot(raw))
        /\ arg = <<"1",".","5","0"," ","L","o","t">> => out.lot = 150
        /\ arg = <<"0",".","5"," ","L","o","t">> => out.lot = 50
        /\ arg = <<"1","0","0"," ","L","o","t">> => out.lot = 100
        /\ arg = <<"L","o","t"," ","1","0","0">> => out.lot = 100
        /\ arg = <<"1","2",".","5"," ","L","o","t">> => out.lot = 13

\* C6 witness: "1.50 Lot" has been parsed, as 150
C6_Witness ==
  LotParsed /\ arg = <<"1",".","5","0"," ","L","o","t">> /\ out.lot = 150

\* arg is "-n Lot" for a numeral n: n, or <<>>
MinusLotNumeral ==
  IF /\ arg # Undefined
     /\ Len(arg) >= 6
     /\ arg[1] = "-"
     /\ SubSeq(arg, Len(arg) - 3, Len(arg)) = <<" ","L","o","t">>
     /\ SubSeq(arg, 2, Len(arg) - 4) \in LotNumerals
  THEN SubSeq(arg, 2, Len(arg) - 4)
  ELSE <<>>

\* C7: a title "-n Lot" with a positive numeral n yields 1, not n.
C7_MinusRejected ==
  (LotParsed /\ MinusLotNumeral # <<>> /\ NumberOf(MinusLotNumeral) > 0)
    => out.lot = 1

-----------------------------------------------------------------------------
(* JavaScript values *)

\* a finite number n, in hundredths
JsNum(n)  == [t |-> "num",   n |-> n, s |-> <<>>]
\* sg * 1e308: a finite double so large that doubling it overflows
JsBig(sg) == [t |-> "big",   n |-> sg, s |-> <<>>]
JsStr(cs) == [t |-> "str",   n |-> 0, s |-> cs]
\* sg * Infinity
JsInf(sg) == [t |-> "inf",   n |-> sg, s |-> <<>>]
JsNaN     == [t |-> "nan",   n |-> 0, s |-> <<>>]
JsNull    == [t |-> "null",  n |-> 0, s |-> <<>>]
JsUndef   == [t |-> "undef", n |-> 0, s |-> <<>>]

\* Number.isFinite(x): true of finite numbers only, with no coercion
NumberIsFinite(x) == x.t \in {"num", "big"}

\* obj[key] on a plain object: undefined when the key is missing
Get(obj, key) == IF key \in DOMAIN obj THEN obj[key] ELSE JsUndef

Sign(k) == IF k > 0 THEN 1 ELSE IF k < 0 THEN 0 - 1 ELSE 0

\* x * k for a number x and an integer count k, in double arithmetic:
\* 1e308 * k is Infinity as soon as |k| >= 2, Infinity * 0 is NaN
Times(x, k) ==
  IF x.t = "num" THEN JsNum(x.n * k)
  ELSE IF x.t = "big"
       THEN (IF k = 0 THEN JsNum(0)
             ELSE IF k = 1 \/ k = 0 - 1 THEN JsBig(x.n * k)
             ELSE JsInf(x.n * Sign(k)))
  ELSE IF x.t = "inf" /\ k # 0 THEN JsInf(x.n * Sign(k))
  ELSE JsNaN

\* a - x for an amount a (hundredths) and a number x: an amount vanishes
\* next to 1e308
Minus(a, x) ==
  IF x.t = "num" THEN JsNum(a - x.n)
  ELSE IF x.t = "big" THEN JsBig(0 - x.n)
  ELSE IF x.t = "inf" THEN JsInf(0 - x.n)
  ELSE JsNaN

-----------------------------------------------------------------------------
(* Dates: a Date is its UTC calendar fields and the milliseconds of its day; *)
(* the page runs in a browser whose time zone is UTC                         *)

NoDate == [some |-> FALSE, y |-> 0, mo |-> 0, d |-> 0, ms |-> 0]
DateOf(y, mo, d, ms) == [some |-> TRUE, y |-> y, mo |-> mo, d |-> d, ms |-> ms]

\* the decimal digits of n, padded with zeros to width w
RECURSIVE PadDigits(_, _)
PadDigits(n, w) ==
  IF w = 0 THEN <<>>
  ELSE PadDigits(n \div 10, w - 1) \o <<Ascii[17 + (n % 10)]>>

\* Date.prototype.toISOString: YYYY-MM-DDTHH:mm:ss.sssZ
toISOString(dt) ==
  PadDigits(dt.y, 4) \o <<"-">> \o PadDigits(dt.mo, 2) \o <<"-">> \o PadDigits(dt.d, 2)
  \o <<"T">> \o PadDigits(dt.ms \div 3600000, 2)
  \o <<":">> \o PadDigits((dt.ms \div 60000) % 60, 2)
  \o <<":">> \o PadDigits((dt.ms \div 1000) % 60, 2)
  \o <<".">> \o PadDigits(dt.ms % 1000, 3) \o <<"Z">>

-----------------------------------------------------------------------------
(* hashStr and rowId *)

\* bit k of a
Bit(a, k) == (a \div (2 ^ k)) % 2

\* a ^ b for 0 <= a, b < 2^8
Xor(a, b) ==
    ((Bit(a, 0) + Bit(b, 0)) % 2)
  + ((Bit(a, 1) + Bit(b, 1)) % 2) * 2
  + ((Bit(a, 2) + Bit(b, 2)) % 2) * 4
  + ((Bit(a, 3) + Bit(b, 3)) % 2) * 8
  + ((Bit(a, 4) + Bit(b, 4)) % 2) * 16
  + ((Bit(a, 5) + Bit(b, 5)) % 2) * 32
  + ((Bit(a, 6) + Bit(b, 6)) % 2) * 64
  + ((Bit(a, 7) + Bit(b, 7)) % 2) * 128

\* one round of the loop of hashStr on h = hi * 2^16 + lo, for a character
\* code below 2^8, which changes the low byte of h only:
\*   h ^= code; h = Math.imul(h, 16777619)
\* 16777619 is 2^24 + 403, so the low 32 bits of the product are those of
\* (h mod 2^8) * 2^24 + h * 403
HashStep(h, code) ==
  LET lo   == (h.lo \div 256) * 256 + Xor(h.lo % 256, code)
      prod == lo * 403
  IN  [ lo |-> prod % 65536,
        hi |-> (h.hi * 403 + prod \div 65536 + (lo % 256) * 256) % 65536 ]

\* h is an unsigned 32-bit number in two halves
IsUint32(h) == h.hi \in 0..65535 /\ h.lo \in 0..65535

\* the loop of hashStr over cs[i..j], from the hash h of what precedes.  The
\* range is split in two, and h is inspected before it is used, so that TLC
\* evaluates the rounds one after the other on a shallow stack.
RECURSIVE HashFrom(_, _, _, _)
HashFrom(h, cs, i, j) ==
  IF i > j \/ ~IsUint32(h) THEN h
  ELSE IF i = j THEN HashStep(h, charCodeAt[cs[i]])
  ELSE LET mid == (i + j) \div 2
       IN  HashFrom(HashFrom(h, cs, i, mid), cs, mid + 1, j)

\* (h >>> 0).toString(36) for h = hi * 2^16 + lo
RECURSIVE ToBase36(_)
ToBase36(h) ==
  LET mid    == (h.hi % 36) * 65536 + h.lo
      q      == [hi |-> h.hi \div 36, lo |-> mid \div 36]
      digit  == mid % 36
      glyph  == IF digit < 10 THEN Ascii[17 + digit] ELSE Ascii[65 + digit - 10]
  IN  IF q.hi = 0 /\ q.lo = 0 THEN <<glyph>> ELSE ToBase36(q) \o <<glyph>>

\* hashStr: 32-bit FNV-1a from 2166136261 = 33052 * 2^16 + 40389
hashStr(cs) == ToBase36(HashFrom([hi |-> 33052, lo |-> 40389], cs, 1, Len(cs)))

\* the string rowId hashes: the four identity fields joined with "|"
rowKey(r) ==
  Join(<< r.sku, r.name,
          IF r.paidAt.some THEN toISOString(r.paidAt) ELSE <<>>,
          IF r.payoutAt.some THEN toISOString(r.payoutAt) ELSE <<>> >>, <<"|">>)

\* an identifier that also takes in the amount of the row (faulty variant)
rowIdWithAmount(r) == hashStr(rowKey(r) \o <<"|">> \o PadDigits(r.gmvUsd, 6))

\* an identifier that also takes in the payout status (faulty variant)
rowIdWithStatus(r) == hashStr(rowKey(r) \o <<"|">> \o r.payoutStatus)

rowId(r) == hashStr(rowKey(r))

-----------------------------------------------------------------------------
(* Reading a sheet: toNumber, excelDateToJSDate, mapRawRowsToRows *)

\* s.replace(/,/g, "")
RECURSIVE StripCommas(_)
StripCommas(cs) ==
  IF cs = <<>> THEN <<>>
  ELSE IF Head(cs) = "," THEN StripCommas(Tail(cs))
  ELSE <<Head(cs)>> \o StripCommas(Tail(cs))

\* cs is digits, or digits "." and one or two digits
IsNumeral(cs) ==
  /\ cs # <<>>
  /\ \A k \in 1..Len(cs) : IsDigit(cs[k]) \/ cs[k] = "."
  /\ Cardinality({k \in 1..Len(cs) : cs[k] = "."}) <= 1
  /\ IsDigit(cs[1])
  /\ \A k \in 1..Len(cs) : cs[k] = "." => (k + 1 <= Len(cs) /\ k + 2 >= Len(cs))

\* Number(s) for a trimmed string: a signed decimal numeral is its value
\* (hundredths), the empty string is 0, any other text is NaN
StringToNumber(cs) ==
  IF cs = <<>> THEN JsNum(0)
  ELSE IF IsNumeral(cs) THEN JsNum(NumberOf(cs))
  ELSE IF Head(cs) = "-" /\ IsNumeral(Tail(cs)) THEN JsNum(0 - NumberOf(Tail(cs)))
  ELSE IF Head(cs) = "+" /\ IsNumeral(Tail(cs)) THEN JsNum(NumberOf(Tail(cs)))
  ELSE IF cs = <<"1","e","3","0","8">> THEN JsBig(1)
  ELSE IF cs = <<"-","1","e","3","0","8">> THEN JsBig(0 - 1)
  ELSE JsNaN

\* toNumber(v), in hundredths; the cells of a sheet hold amounts far below
\* 1e308
toNumber(v) ==
  IF v.t = "null" \/ v.t = "undef" THEN 0
  ELSE IF v.t = "num" \/ v.t = "inf" \/ v.t = "nan"
       THEN (IF NumberIsFinite(v) THEN v.n ELSE 0)
  ELSE LET str == StripCommas(Trim(v.s))
           n   == StringToNumber(str)
       IN  IF str = <<>> THEN 0
           ELSE IF NumberIsFinite(n) THEN n.n ELSE 0

\* excelDateToJSDate for a cell that is empty or already holds a Date
excelDateToJSDate(v) == IF v.some THEN v ELSE NoDate

\* a faulty variant of the row mapper: the category cell is classified
\* instead of the title
MapRawRowClassifyingCategory(r) ==
  [ sku          |-> Trim(r.sku),
    name         |-> Trim(r.name),
    category     |-> Trim(r.category),
    payoutStatus |-> Trim(r.payoutStatus),
    soldQty      |-> toNumber(r.soldQty),
    gmvUsd       |-> toNumber(r.gmvUsd),
    payoutCny    |-> toNumber(r.payoutCny),
    paidAt       |-> excelDateToJSDate(r.paidAt),
    payoutAt     |-> excelDateToJSDate(r.payoutAt),
    titleGroup   |-> classifyTitleGroup(Trim(r.category)) ]

\* the body of raw.map in mapRawRowsToRows, for a sheet whose header row
\* names all nine columns
MapRawRow(r) ==
  [ sku          |-> Trim(r.sku),
    name         |-> Trim(r.name),
    category     |-> Trim(r.category),
    payoutStatus |-> Trim(r.payoutStatus),
    soldQty      |-> toNumber(r.soldQty),
    gmvUsd       |-> toNumber(r.gmvUsd),
    payoutCny    |-> toNumber(r.payoutCny),
    paidAt       |-> excelDateToJSDate(r.paidAt),
    payoutAt     |-> excelDateToJSDate(r.payoutAt),
    titleGroup   |-> classifyTitleGroup(Trim(r.name)) ]

mapRawRowsToRows(raw) == [i \in 1..Len(raw) |-> MapRawRow(raw[i])]

-----------------------------------------------------------------------------
(* The sheets a user uploads *)

RawRow(sku, name, category, status, qty, gmv, payout, paidAt, payoutAt) ==
  [ sku |-> sku, name |-> name, category |-> category, payoutStatus |-> status,
    soldQty |-> qty, gmvUsd |-> gmv, payoutCny |-> payout,
    paidAt |-> paidAt, payoutAt |-> payoutAt ]

Paid   == <<"P","a","i","d">>
Unpaid == <<"O","p","e","n">>
Cards  == <<"C","a","r","d","s">>

\* "100 Lot Master Ball Holo", payout 500
RawMasterBall ==
  RawRow(<<"A","1">>,
         <<"1","0","0"," ","L","o","t"," ","M","a","s","t","e","r"," ","B","a","l","l"," ","H","o","l","o">>,
         Cards, Paid, JsNum(100), JsNum(8000), JsNum(50000),
         DateOf(2024, 1, 2, 36000000), DateOf(2024, 1, 9, 0))

\* " RR Only  pack ", no payout yet
RawRROnly ==
  RawRow(<<"A","2">>,
         <<" ","R","R"," ","O","n","l","y"," "," ","p","a","c","k"," ">>,
         Cards, Unpaid, JsNum(100), JsStr(<<"1",",","2","3","4",".","5","0">>), JsStr(<<>>),
         DateOf(2024, 1, 3, 0), NoDate)

\* "mystery bundle", a payout of -5 (a clawback)
RawMystery ==
  RawRow(<<"A","3">>,
         <<"m","y","s","t","e","r","y"," ","b","u","n","d","l","e">>,
         <<>>, Paid, JsNum(100), JsNum(1000), JsStr(<<"-","5">>),
         NoDate, DateOf(2024, 1, 10, 0))

\* "2 Lot RR VMAX", payout 3
RawRRVmax ==
  RawRow(<<"B","1">>,
         <<"2"," ","L","o","t"," ","R","R"," ","V","M","A","X">>,
         Cards, Paid, JsNum(200), JsNum(500), JsNum(300),
         DateOf(2024, 1, 4, 0), DateOf(2024, 1, 11, 0))

\* a second line of the order of RawMasterBall: the same sku, name and dates,
\* other amounts
RawMasterBallSplit ==
  RawRow(RawMasterBall.sku, RawMasterBall.name,
         Cards, Unpaid, JsNum(2500), JsNum(2000), JsNum(12500),
         RawMasterBall.paidAt, RawMasterBall.payoutAt)

\* the contents of the first sheet of each workbook
Sheets ==
  { <<RawMasterBall, RawRROnly, RawMystery>>,
    <<RawRRVmax, RawMasterBall, RawMasterBallSplit>>,
    <<>> }

\* what the file input hands to onFile: a sheet, a file XLSX.read rejects, or
\* no file at all
NoFile  == [kind |-> "none",  sheet |-> <<>>]
BadFile == [kind |-> "bad",   sheet |-> <<>>]
SheetFile(sh) == [kind |-> "sheet", sheet |-> sh]
Files == {NoFile, BadFile} \cup {SheetFile(sh) : sh \in Sheets}

-----------------------------------------------------------------------------
(* The cost tables and their stored documents *)

\* COST_DEFAULTS, in hundredths
CostDefaultsList ==
  << <<"AR/CHR", 200>>, <<"Ball Holo", 20>>, <<"Japanese", 50>>, <<"KFC Pack", 300>>,
     <<"Logo Reverse Holo", 100>>, <<"Master Ball", 70>>, <<"Mix", 20>>, <<"OCD", 1400>>,
     <<"RR Only", 40>>, <<"RR+RRR", 60>>, <<"RRR+VMAX", 70>>, <<"SR/HR", 300>>,
     <<"Sealed", 0>>, <<"TAG TEAM", 0>>, <<"Trainer Item / Supporter", 0>>,
     <<"V/VMAX/VSTAR", 0>>, <<"VSTAR Universe", 0>>, <<"VSTAR Universe (Sealed)", 0>>,
     <<"VSTAR Universe (Singles)", 0>>, <<"VSTAR Universe (Lots)", 0>>,
     <<"VSTAR Universe (Master Ball)", 70>>, <<"VSTAR Universe (AR/CHR)", 200>>,
     <<"VSTAR Universe (SR/HR)", 300>>, <<"Other", 0>> >>

COST_DEFAULTS ==
  [ g \in {CostDefaultsList[i][1] : i \in 1..Len(CostDefaultsList)} |->
      JsNum(CostDefaultsList[CHOOSE i \in 1..Len(CostDefaultsList) :
                               CostDefaultsList[i][1] = g][2]) ]

LS_COST_MAP_KEY     == "costMap_v2"
LS_ROW_OVERRIDE_KEY == "rowCostOverride_v2"
StorageKeys == {LS_COST_MAP_KEY, LS_ROW_OVERRIDE_KEY}

\* a localStorage entry: absent, a JSON object, or text JSON.parse rejects
NoDoc      == [kind |-> "none",    table |-> <<>>]
GarbageDoc == [kind |-> "garbage", table |-> <<>>]
Doc(table) == [kind |-> "json",    table |-> table]

\* an object with no keys
EmptyObject == [k \in {} |-> JsUndef]

\* a faulty variant: the value is written to every key
WithEveryKey(obj, key, v) == [k \in DOMAIN obj \cup {key} |-> v]

\* { ...obj, [key]: v }
With(obj, key, v) ==
  [k \in DOMAIN obj \cup {key} |-> IF k = key THEN v ELSE obj[k]]

\* a delete that removes nothing (faulty variant)
WithoutNothing(obj, key) == obj

\* delete obj[key]
Without(obj, key) == [k \in DOMAIN obj \ {key} |-> obj[k]]

\* JSON.stringify of an object: undefined members are left out, NaN and the
\* infinities are written as null
JsonStringify(obj) ==
  Doc([k \in {j \in DOMAIN obj : obj[j].t # "undef"} |->
         IF obj[k].t \in {"inf", "nan"} THEN JsNull ELSE obj[k]])

\* JSON.parse of a document that parses: a number token beyond the double
\* range (1e999) is read as Infinity
JsonParse(doc) == doc.table

-----------------------------------------------------------------------------
(* Page.calculators *)

lotCountOf(r) == parseLotCountFromTitle(r.name)

\* a faulty variant: the Number.isFinite test is missing
costPerLotOfGroupUnchecked(g) == Get(costMap, g)

costPerLotOfGroup(g) ==
  IF NumberIsFinite(Get(costMap, g)) THEN Get(costMap, g) ELSE JsNum(0)

\* a faulty variant: the override table is not consulted
costPerLotForRowIgnoringOverride(r) == costPerLotOfGroup(r.titleGroup)

costPerLotForRow(r) ==
  LET id == rowId(r)
      v  == Get(rowCostOverride, id)
  IN  IF NumberIsFinite(v) THEN v ELSE costPerLotOfGroup(r.titleGroup)

totalCostOf(r) == Times(costPerLotForRow(r), lotCountOf(r))

totalCostOfDefault(r) == Times(costPerLotOfGroup(r.titleGroup), lotCountOf(r))

\* a faulty variant: the cost is subtracted whether or not a payout is
\* recorded
profitOfUnguarded(r) == Minus(r.payoutCny, totalCostOf(r))

\* r.payoutCny ? r.payoutCny - totalCostOf(r) : 0
profitOf(r) ==
  IF r.payoutCny # 0 THEN Minus(r.payoutCny, totalCostOf(r)) ELSE JsNum(0)

profitOfDefault(r) ==
  IF r.payoutCny # 0 THEN Minus(r.payoutCny, totalCostOfDefault(r)) ELSE JsNum(0)

-----------------------------------------------------------------------------
(* The filters and their reducer *)

\* the choice "all" of the three selects (its label in the page is Chinese)
All == "ALL"

initialFilters ==
  [ status |-> All, category |-> All, group |-> All, q |-> <<>>,
    paidStartYmd |-> <<>>, paidEndYmd |-> <<>>,
    payoutStartYmd |-> <<>>, payoutEndYmd |-> <<>>,
    sortKey |-> "profit", sortDir |-> "desc", page |-> 1, pageSize |-> 50 ]

resetsPageKeys ==
  { "status", "category", "group", "q", "paidStartYmd", "paidEndYmd",
    "payoutStartYmd", "payoutEndYmd", "sortKey", "sortDir", "pageSize" }

Max(a, b) == IF a >= b THEN a ELSE b

\* the actions dispatch receives
ResetAction        == [type |-> "reset",   key |-> "",   value |-> 0, page |-> 0]
SetPageAction(p)   == [type |-> "setPage", key |-> "",   value |-> 0, page |-> p]
SetAction(key, v)  == [type |-> "set",     key |-> key,  value |-> v, page |-> 0]

\* a faulty variant: a "set" leaves the page where it is
filtersReducerKeepingPage(state, action) ==
  IF action.type = "reset" THEN initialFilters
  ELSE IF action.type = "setPage"
       THEN [state EXCEPT !.page = Max(1, action.page)]
  ELSE [state EXCEPT ![action.key] = action.value]

filtersReducer(state, action) ==
  IF action.type = "reset" THEN initialFilters
  ELSE IF action.type = "setPage"
       THEN [state EXCEPT !.page = Max(1, action.page)]
  ELSE LET next == [state EXCEPT ![action.key] = action.value]
       IN  IF action.key \in resetsPageKeys THEN [next EXCEPT !.page = 1]
           ELSE next

\* Page.groupOptions without its leading "all" entry
groupOptions == {rows[i].titleGroup : i \in 1..Len(rows)}

\* the indices of the rows Page.baseRows keeps.  Of the base filters only
\* the group select is operated here: status and category stay "all" and the
\* search box stays empty
baseRows ==
  { i \in 1..Len(rows) :
      filters.group = All \/ rows[i].titleGroup = filters.group }

-----------------------------------------------------------------------------
(* Date windows: parseYmd, endOfDay, filterByDate *)

\* a < b for two Dates
DateLt(a, b) ==
  \/ a.y < b.y
  \/ a.y = b.y /\ a.mo < b.mo
  \/ a.y = b.y /\ a.mo = b.mo /\ a.d < b.d
  \/ a.y = b.y /\ a.mo = b.mo /\ a.d = b.d /\ a.ms < b.ms

\* new Date(y, mo - 1, d, ...) for a month and a day of the calendar: a year
\* from 0 to 99 is taken as 1900 + y
NewDate(y, mo, d, ms) == DateOf(IF y < 100 THEN 1900 + y ELSE y, mo, d, ms)

\* parseYmd: ymd.split("-").map(Number), null when a part is 0, NaN or missing
parseYmd(ymd) ==
  IF ymd = <<>> THEN NoDate
  ELSE LET dashes  == {i \in 1..Len(ymd) : ymd[i] = "-"}
           Cut(k)  == IF k = 0 THEN 0
                      ELSE IF k > Cardinality(dashes) THEN Len(ymd) + 1
                      ELSE CHOOSE i \in dashes : Cardinality({j \in dashes : j <= i}) = k
           Part(k) == IF k > Cardinality(dashes) + 1 THEN JsNaN
                      ELSE StringToNumber(SubSeq(ymd, Cut(k - 1) + 1, Cut(k) - 1))
           Falsy(x) == ~NumberIsFinite(x) \/ x.n = 0
       IN  IF Falsy(Part(1)) \/ Falsy(Part(2)) \/ Falsy(Part(3)) THEN NoDate
           ELSE NewDate(Part(1).n \div 100, Part(2).n \div 100, Part(3).n \div 100, 0)

\* endOfDay: 23:59:59.999 of the day of d
endOfDay(d) == NewDate(d.y, d.mo, d.d, 86399999)

\* what a call returns that reads a property of null
TypeError == <<"TypeError">>

\* filterByDate with an end bound at the first instant of the end day
\* (faulty variant)
filterByDateEndAtMidnight(input, getDt, startYmd, endYmd) ==
  LET start == parseYmd(startYmd)
      end   == IF endYmd # <<>> THEN parseYmd(endYmd) ELSE NoDate
      Keep(r) == /\ r[getDt].some
                 /\ ~(start.some /\ DateLt(r[getDt], start))
                 /\ ~(end.some /\ DateLt(end, r[getDt]))
  IN  IF ~start.some /\ ~end.some THEN input ELSE SelectSeq(input, Keep)

\* filterByDate(input, getDt, startYmd, endYmd); getDt names the date field
filterByDate(input, getDt, startYmd, endYmd) ==
  IF endYmd # <<>> /\ ~parseYmd(endYmd).some THEN TypeError
  ELSE LET start == parseYmd(startYmd)
           end   == IF endYmd # <<>> THEN endOfDay(parseYmd(endYmd)) ELSE NoDate
           Keep(r) == /\ r[getDt].some
                      /\ ~(start.some /\ DateLt(r[getDt], start))
                      /\ ~(end.some /\ DateLt(end, r[getDt]))
       IN  IF ~start.some /\ ~end.some THEN input ELSE SelectSeq(input, Keep)

\* the value of a date input: YYYY-MM-DD, or the empty string when no day is
\* picked
YmdOf(day) ==
  IF ~day.some THEN <<>>
  ELSE PadDigits(day.y, 4) \o <<"-">> \o PadDigits(day.mo, 2) \o <<"-">> \o PadDigits(day.d, 2)

-----------------------------------------------------------------------------
(* Daily series: dayKey, addDays, buildDailySeries *)

\* dayKey: the year as String writes it, month and day padded to two digits
dayKey(d) ==
  LET width == IF d.y < 10 THEN 1 ELSE IF d.y < 100 THEN 2 ELSE IF d.y < 1000 THEN 3 ELSE 4
  IN  PadDigits(d.y, width) \o <<"-">> \o PadDigits(d.mo, 2) \o <<"-">> \o PadDigits(d.d, 2)

\* addDays(d, n) for n >= 0: setDate(getDate() + n) rolls over the end of a
\* month and of a year
RECURSIVE addDays(_, _)
addDays(d, n) ==
  LET leap == (d.y % 4 = 0 /\ d.y % 100 # 0) \/ d.y % 400 = 0
      days == IF d.mo = 2 THEN (IF leap THEN 29 ELSE 28)
              ELSE IF d.mo \in {4, 6, 9, 11} THEN 30 ELSE 31
      next == IF d.d < days THEN DateOf(d.y, d.mo, d.d + 1, d.ms)
              ELSE IF d.mo < 12 THEN DateOf(d.y, d.mo + 1, 1, d.ms)
              ELSE DateOf(d.y + 1, 1, 1, d.ms)
  IN  IF n = 0 THEN d ELSE addDays(next, n - 1)

\* the sum of a list of amounts
RECURSIVE SumSeq(_)
SumSeq(vals) == IF vals = <<>> THEN 0 ELSE Head(vals) + SumSeq(Tail(vals))

\* the sum of getVal(r) || 0 over the rows whose day has the given key
RECURSIVE DayTotal(_, _, _, _)
DayTotal(input, getDt, getVal, key) ==
  IF input = <<>> THEN 0
  ELSE LET r == Head(input)
       IN  (IF r[getDt].some /\ dayKey(r[getDt]) = key THEN r[getVal] ELSE 0)
           + DayTotal(Tail(input), getDt, getVal, key)

\* the loop of buildDailySeries: for (d = start; d <= end; d = addDays(d, 1))
RECURSIVE DailyPoints(_, _, _, _, _)
DailyPoints(input, getDt, getVal, d, end) ==
  IF DateLt(end, d) THEN <<>>
  ELSE <<[date |-> dayKey(d), value |-> DayTotal(input, getDt, getVal, dayKey(d))]>>
       \o DailyPoints(input, getDt, getVal, addDays(d, 1), end)

\* buildDailySeries(input, getDt, getVal, startYmd, endYmd); getDt and getVal
\* name the fields read
buildDailySeries(input, getDt, getVal, startYmd, endYmd) ==
  LET dated == {i \in 1..Len(input) : input[i][getDt].some}
      Day0(i) == NewDate(input[i][getDt].y, input[i][getDt].mo, input[i][getDt].d, 0)
      minD == IF dated = {} THEN NoDate
              ELSE Day0(CHOOSE i \in dated : \A j \in dated : ~DateLt(Day0(j), Day0(i)))
      maxD == IF dated = {} THEN NoDate
              ELSE Day0(CHOOSE i \in dated : \A j \in dated : ~DateLt(Day0(i), Day0(j)))
      start == IF startYmd # <<>> THEN parseYmd(startYmd) ELSE minD
      end   == IF endYmd # <<>> THEN parseYmd(endYmd) ELSE maxD
  IN  IF input = <<>> THEN <<>>
      ELSE IF ~start.some \/ ~end.some THEN <<>>
      ELSE DailyPoints(input, getDt, getVal, start, end)

-----------------------------------------------------------------------------
(* Page.top10: agg *)

\* Array.from(m.entries()) of the Map agg fills: one entry for each group, in
\* the order in which the groups first occur, with the sum of getVal(r) || 0
GroupEntries(input, getVal) ==
  LET GroupOf(i) == IF input[i].titleGroup = "" THEN "Other" ELSE input[i].titleGroup
      firsts == {i \in 1..Len(input) : \A j \in 1..(i - 1) : GroupOf(j) # GroupOf(i)}
      Nth(k) == CHOOSE i \in firsts : Cardinality({j \in firsts : j <= i}) = k
      Total(g) == SumSeq([i \in 1..Len(input) |->
                            IF GroupOf(i) = g THEN input[i][getVal] ELSE 0])
  IN  [k \in 1..Cardinality(firsts) |->
         [group |-> GroupOf(Nth(k)), value |-> Total(GroupOf(Nth(k)))]]

\* entries.sort((a, b) => b.value - a.value): descending, and stable, so
\* entries of one value keep their order
SortByValueDesc(entries) ==
  LET Before(i, j) == \/ entries[i].value > entries[j].value
                      \/ entries[i].value = entries[j].value /\ i < j
      Place(i) == 1 + Cardinality({j \in 1..Len(entries) : Before(j, i)})
  IN  [k \in 1..Len(entries) |-> entries[CHOOSE i \in 1..Len(entries) : Place(i) = k]]

\* agg that cuts to ten entries before it sorts (faulty variant)
aggSliceFirst(input, getVal) ==
  LET entries == GroupEntries(input, getVal)
  IN  SortByValueDesc(SubSeq(entries, 1, IF Len(entries) < 10 THEN Len(entries) ELSE 10))

\* agg(input, getVal) of Page.top10; getVal names the field read
agg(input, getVal) ==
  LET sorted == SortByValueDesc(GroupEntries(input, getVal))
  IN  SubSeq(sorted, 1, IF Len(sorted) < 10 THEN Len(sorted) ELSE 10)

-----------------------------------------------------------------------------
(* percentile *)

\* [...arr].sort((x, y) => x - y): ascending by value
SortAscending(arr) ==
  LET Before(i, j) == arr[i] < arr[j] \/ (arr[i] = arr[j] /\ i < j)
      Place(i) == 1 + Cardinality({j \in 1..Len(arr) : Before(j, i)})
  IN  [k \in 1..Len(arr) |-> arr[CHOOSE i \in 1..Len(arr) : Place(i) = k]]

\* percentile(arr, p) with p given in tenths: a[idx] for the 0-based
\* idx = min(n - 1, max(0, floor((n - 1) * p)))
percentile(arr, p) ==
  IF arr = <<>> THEN 0
  ELSE LET a     == SortAscending(arr)
           floor == ((Len(a) - 1) * p) \div 10
           idx   == IF floor < 0 THEN 0 ELSE IF floor > Len(a) - 1 THEN Len(a) - 1 ELSE floor
       IN  a[idx + 1]

-----------------------------------------------------------------------------
(* The windowed row sets of the page and what is aggregated from them *)

\* a + b in double arithmetic: 1e308 + 1e308 is Infinity, an amount
\* vanishes next to 1e308, Infinity - Infinity is NaN
Plus(a, b) ==
  IF a.t = "nan" \/ b.t = "nan" THEN JsNaN
  ELSE IF a.t = "inf" /\ b.t = "inf" THEN (IF a.n = b.n THEN a ELSE JsNaN)
  ELSE IF a.t = "inf" THEN a
  ELSE IF b.t = "inf" THEN b
  ELSE IF a.t = "big" /\ b.t = "big" THEN (IF a.n = b.n THEN JsInf(a.n) ELSE JsNum(0))
  ELSE IF a.t = "big" THEN a
  ELSE IF b.t = "big" THEN b
  ELSE JsNum(a.n + b.n)

\* vals.reduce((s, x) => s + x, 0)
RECURSIVE SumJs(_)
SumJs(vals) ==
  IF vals = <<>> THEN JsNum(0)
  ELSE Plus(SumJs(SubSeq(vals, 1, Len(vals) - 1)), vals[Len(vals)])

\* the array Page.baseRows
baseRowList ==
  LET Nth(k) == CHOOSE i \in baseRows : Cardinality({j \in baseRows : j <= i}) = k
  IN  [k \in 1..Cardinality(baseRows) |-> rows[Nth(k)]]

\* the paid-windowed rows cut by the payout range as well (faulty variant)
paidRowsBothWindows ==
  filterByDate(filterByDate(baseRowList, "paidAt", filters.paidStartYmd, filters.paidEndYmd),
               "payoutAt", filters.payoutStartYmd, filters.payoutEndYmd)

paidRows ==
  filterByDate(baseRowList, "paidAt", filters.paidStartYmd, filters.paidEndYmd)

payoutRows ==
  filterByDate(baseRowList, "payoutAt", filters.payoutStartYmd, filters.payoutEndYmd)

listRows ==
  filterByDate(filterByDate(baseRowList, "paidAt", filters.paidStartYmd, filters.paidEndYmd),
               "payoutAt", filters.payoutStartYmd, filters.payoutEndYmd)

\* Page.kpi; the margin is kept as the quotient it is computed from
kpi ==
  LET payoutCny   == SumSeq([i \in 1..Len(payoutRows) |-> payoutRows[i].payoutCny])
      totalProfit == SumJs([i \in 1..Len(payoutRows) |-> profitOf(payoutRows[i])])
  IN  [ baseCount   |-> Cardinality(baseRows),
        listCount   |-> Len(listRows),
        gmvUsd      |-> SumSeq([i \in 1..Len(paidRows) |-> paidRows[i].gmvUsd]),
        payoutCny   |-> payoutCny,
        totalCost   |-> SumJs([i \in 1..Len(payoutRows) |->
                                IF payoutRows[i].payoutCny # 0
                                THEN totalCostOf(payoutRows[i]) ELSE JsNum(0)]),
        totalProfit |-> totalProfit,
        margin      |-> IF payoutCny > 0
                        THEN [num |-> totalProfit, den |-> payoutCny]
                        ELSE [num |-> JsNum(0), den |-> 1] ]

\* Page.top10, without the ranking by profit
top10 ==
  [ gmv    |-> agg(paidRows, "gmvUsd"),
    payout |-> agg(payoutRows, "payoutCny") ]

gmvSeries ==
  buildDailySeries(paidRows, "paidAt", "gmvUsd", filters.paidStartYmd, filters.paidEndYmd)

payoutSeries ==
  buildDailySeries(payoutRows, "payoutAt", "payoutCny",
                   filters.payoutStartYmd, filters.payoutEndYmd)

\* Page.otherRows of the array base: its rows labelled "Other", the first 200
\* of them
otherRowsOf(base) ==
  LET IsOther(r) == (IF r.titleGroup = "" THEN "Other" ELSE r.titleGroup) = "Other"
      others     == SelectSeq(base, IsOther)
  IN  SubSeq(others, 1, IF Len(others) < 200 THEN Len(others) ELSE 200)

otherRows == otherRowsOf(baseRowList)

\* Page.report: whether actions holds the suggestion to turn the keywords of
\* the Other list into classification rules
SuggestsOtherRules(base) == Len(otherRowsOf(base)) > 0

-----------------------------------------------------------------------------
(* What is in localStorage when the page is opened *)

\* a cost table written by hand or by another version of the page: a string,
\* a number beyond the double range, a null, and one plain number
StoredCostTable ==
  [ g \in {"Master Ball", "RR Only", "Other", "Mix"} |->
      IF g = "Master Ball" THEN JsStr(<<"0",".","7">>)
      ELSE IF g = "RR Only" THEN JsInf(1)
      ELSE IF g = "Other" THEN JsNull
      ELSE JsNum(20) ]

\* overrides left by an earlier session: 1.5 for the Master Ball order, 2.5
\* for the mystery bundle, and a string for the RR VMAX order
StoredOverrides ==
  [ id \in { rowId(MapRawRow(RawMasterBall)), rowId(MapRawRow(RawMystery)),
             rowId(MapRawRow(RawRRVmax)) } |->
      IF id = rowId(MapRawRow(RawMasterBall)) THEN JsNum(150)
      ELSE IF id = rowId(MapRawRow(RawMystery)) THEN JsNum(250)
      ELSE JsStr(<<"2">>) ]

CostDocs     == {NoDoc, GarbageDoc, Doc(StoredCostTable)}
OverrideDocs == {NoDoc, Doc(StoredOverrides)}

\* what the user can type into a cost input: nothing, 1.5, 1e308
CostInputs == { <<>>, <<"1",".","5">>, <<"1","e","3","0","8">> }

\* the categories whose default the user edits
EditedGroups == {"Master Ball", "RR Only"}

\* the values offered by the page-size select
PageSizes == {20, 50, 100, 200}

Tabs == {"overview", "orders", "costs"}

\* the chart buttons the user presses (two of OverviewCharts.Views)
Views == {"top10-profit", "other"}

NoOp == [kind |-> "none", i |-> 0, group |-> "", input |-> <<>>]

-----------------------------------------------------------------------------
(* Page: construction and mount *)

Init ==
  /\ arg = <<>>
  /\ out = NotCalled
  /\ rows = <<>>
  /\ isParsing = FALSE
  /\ tab = "overview"
  /\ overviewView = "top10-profit"
  /\ toasts = <<>>
  /\ filters = initialFilters
  /\ upload = NoFile
  /\ costMap = COST_DEFAULTS
  /\ rowCostOverride = EmptyObject
  /\ \E c \in CostDocs, o \in OverrideDocs :
        stored = [k \in StorageKeys |-> IF k = LS_COST_MAP_KEY THEN c ELSE o]
  /\ loadedRef = [k \in StorageKeys |-> FALSE]
  /\ pending = [k \in StorageKeys |-> <<>>]
  /\ mount = "mounted"
  /\ strictMode \in BOOLEAN
  /\ ops = 0
  /\ lastOp = NoOp

\* the value useLocalStorageState(key) currently renders
ValueOf(key) == IF key = LS_COST_MAP_KEY THEN costMap ELSE rowCostOverride

\* the first effect of useLocalStorageState: read the entry and queue it
LoadEffect(key) ==
  IF stored[key].kind = "json"
  THEN Append(pending[key], JsonParse(stored[key]))
  ELSE pending[key]

\* The effects of both hooks after a mount.  For each key the load effect
\* runs first and sets loadedRef, so the persist effect that follows writes
\* the value of this render, which is still the initial one.  StrictMode
\* mounts the component a second time and runs the effects again.
RunMountEffects ==
  /\ mount \in {"mounted", "remounted"}
  /\ pending' = [k \in StorageKeys |-> LoadEffect(k)]
  /\ loadedRef' = [k \in StorageKeys |-> TRUE]
  /\ stored' = [k \in StorageKeys |-> JsonStringify(ValueOf(k))]
  /\ mount' = IF strictMode /\ mount = "mounted" THEN "remounted" ELSE "effectsDone"
  /\ UNCHANGED <<arg, out, uiVars, costMap, rowCostOverride, strictMode, ops, lastOp>>

\* the value after the queued setValue calls: the last one wins
Rendered(key) ==
  IF pending[key] = <<>> THEN ValueOf(key) ELSE pending[key][Len(pending[key])]

\* the render that follows the effects, and the persist effect after it
Rerender ==
  /\ mount = "effectsDone"
  /\ costMap' = Rendered(LS_COST_MAP_KEY)
  /\ rowCostOverride' = Rendered(LS_ROW_OVERRIDE_KEY)
  /\ pending' = [k \in StorageKeys |-> <<>>]
  /\ stored' = [k \in StorageKeys |-> JsonStringify(Rendered(k))]
  /\ mount' = "ready"
  /\ UNCHANGED <<arg, out, uiVars, loadedRef, strictMode, ops, lastOp>>

-----------------------------------------------------------------------------
(* Page: what the user does once the page is ready *)

CanAct == mount = "ready" /\ ops < MaxOps

Did(kind, i, group, input) ==
  /\ ops' = ops + 1
  /\ lastOp' = [kind |-> kind, i |-> i, group |-> group, input |-> input]

\* setValue(v) of a mounted useLocalStorageState, with the persist effect of
\* the render it causes
SetCostMap(v) ==
  /\ costMap' = v
  /\ stored' = [stored EXCEPT ![LS_COST_MAP_KEY] = JsonStringify(v)]
  /\ UNCHANGED <<rowCostOverride, loadedRef, pending, mount, strictMode>>

SetRowCostOverride(v) ==
  /\ rowCostOverride' = v
  /\ stored' = [stored EXCEPT ![LS_ROW_OVERRIDE_KEY] = JsonStringify(v)]
  /\ UNCHANGED <<costMap, loadedRef, pending, mount, strictMode>>

\* onFile up to its first await; the input is disabled while a file is read
OnFile(f) ==
  /\ CanAct
  /\ ~isParsing
  /\ IF f.kind = "none"
     THEN UNCHANGED <<isParsing, upload>>
     ELSE isParsing' = TRUE /\ upload' = f
  /\ Did("onFile", 0, "", <<>>)
  /\ UNCHANGED <<arg, out, rows, tab, overviewView, toasts, filters, hookVars>>

\* a faulty variant: the handler sets the rows before it reads the file, so
\* a failure leaves the page without rows
OnFileDoneLosingRows ==
  /\ mount = "ready"
  /\ isParsing
  /\ Len(toasts) < MaxToasts
  /\ IF upload.kind = "sheet"
     THEN /\ rows' = mapRawRowsToRows(upload.sheet)
          /\ tab' = "overview"
          /\ overviewView' = "top10-profit"
          /\ toasts' = Append(toasts, "success")
     ELSE /\ toasts' = Append(toasts, "error")
          /\ rows' = <<>>
          /\ UNCHANGED <<tab, overviewView>>
  /\ isParsing' = FALSE
  /\ upload' = NoFile
  /\ lastOp' = [kind |-> "onFileDone", i |-> 0, group |-> "", input |-> <<>>]
  /\ UNCHANGED <<arg, out, filters, hookVars, ops>>

\* onFile after the file has been read: try, catch and finally
OnFileDone ==
  /\ mount = "ready"
  /\ isParsing
  /\ Len(toasts) < MaxToasts
  /\ IF upload.kind = "sheet"
     THEN /\ rows' = mapRawRowsToRows(upload.sheet)
          /\ tab' = "overview"
          /\ overviewView' = "top10-profit"
          /\ toasts' = Append(toasts, "success")
     ELSE /\ toasts' = Append(toasts, "error")
          /\ UNCHANGED <<rows, tab, overviewView>>
  /\ isParsing' = FALSE
  /\ upload' = NoFile
  /\ lastOp' = [kind |-> "onFileDone", i |-> 0, group |-> "", input |-> <<>>]
  /\ UNCHANGED <<arg, out, filters, hookVars, ops>>

\* a toast leaves after its 3200 ms, or when it is closed
RemoveToast(k) ==
  /\ k \in 1..Len(toasts)
  /\ toasts' = [j \in 1..(Len(toasts) - 1) |-> IF j < k THEN toasts[j] ELSE toasts[j + 1]]
  /\ UNCHANGED <<arg, out, rows, isParsing, tab, overviewView, filters, upload,
                 hookVars, ops, lastOp>>

SetTab(t) ==
  /\ CanAct
  /\ tab' = t
  /\ Did("setTab", 0, t, <<>>)
  /\ UNCHANGED <<arg, out, rows, isParsing, overviewView, toasts, filters, upload, hookVars>>

SetOverviewView(v) ==
  /\ CanAct
  /\ tab = "overview"
  /\ overviewView' = v
  /\ Did("setOverviewView", 0, v, <<>>)
  /\ UNCHANGED <<arg, out, rows, isParsing, tab, toasts, filters, upload, hookVars>>

Dispatch(action) ==
  /\ filters' = filtersReducer(filters, action)
  /\ UNCHANGED <<arg, out, rows, isParsing, tab, overviewView, upload, hookVars>>

\* the group select of FilterPanel
SelectGroup(g) ==
  /\ CanAct
  /\ Dispatch(SetAction("group", g))
  /\ Did("selectGroup", 0, g, <<>>)
  /\ UNCHANGED toasts

\* the day picked in each of the four date inputs of FilterPanel
PickedDay ==
  [ paidStartYmd   |-> DateOf(2024, 1, 3, 0), paidEndYmd   |-> DateOf(2024, 1, 3, 0),
    payoutStartYmd |-> DateOf(2024, 1, 10, 0), payoutEndYmd |-> DateOf(2024, 1, 10, 0) ]

\* a date input of FilterPanel
PickDate(key) ==
  /\ CanAct
  /\ Dispatch(SetAction(key, YmdOf(PickedDay[key])))
  /\ Did("pickDate", 0, key, <<>>)
  /\ UNCHANGED toasts

\* a sortable column header of OrdersTable
ClickSort(key) ==
  /\ CanAct
  /\ tab = "orders"
  /\ IF filters.sortKey # key
     THEN Dispatch(SetAction("sortKey", key))
     ELSE Dispatch(SetAction("sortDir", IF filters.sortDir = "asc" THEN "desc" ELSE "asc"))
  /\ Did("clickSort", 0, key, <<>>)
  /\ UNCHANGED toasts

\* the page-size select of OrdersTable
SelectPageSize(n) ==
  /\ CanAct
  /\ tab = "orders"
  /\ Dispatch(SetAction("pageSize", n))
  /\ Did("selectPageSize", n, "", <<>>)
  /\ UNCHANGED toasts

OnReset ==
  /\ CanAct
  /\ Len(toasts) < MaxToasts
  /\ Dispatch(ResetAction)
  /\ toasts' = Append(toasts, "info")
  /\ Did("onReset", 0, "", <<>>)

\* the cost input of category g in CostsPanel
EditCategoryCost(g, input) ==
  /\ CanAct
  /\ tab = "costs"
  /\ LET n == StringToNumber(input)
     IN  SetCostMap(With(costMap, g, IF NumberIsFinite(n) THEN n ELSE JsNum(0)))
  /\ Did("editCategoryCost", 0, g, input)
  /\ UNCHANGED <<arg, out, uiVars>>

\* the i-th row is in the list OrdersTable shows (a page of 20 rows or more
\* shows all of listRows)
Shown(i) == i \in baseRows /\ \E k \in 1..Len(listRows) : listRows[k] = rows[i]

\* the cost input of the i-th row, shown in OrdersTable
EditOverride(i, input) ==
  /\ CanAct
  /\ tab = "orders"
  /\ Shown(i)
  /\ LET id == rowId(rows[i])
     IN  IF input = <<>> \/ ~NumberIsFinite(StringToNumber(input))
         THEN SetRowCostOverride(Without(rowCostOverride, id))
         ELSE SetRowCostOverride(With(rowCostOverride, id, StringToNumber(input)))
  /\ Did("editOverride", i, "", input)
  /\ UNCHANGED <<arg, out, uiVars>>

\* the restore button of the i-th row, shown while its override is finite
RestoreOverride(i) ==
  /\ CanAct
  /\ tab = "orders"
  /\ Shown(i)
  /\ NumberIsFinite(Get(rowCostOverride, rowId(rows[i])))
  /\ SetRowCostOverride(Without(rowCostOverride, rowId(rows[i])))
  /\ Did("restoreOverride", i, "", <<>>)
  /\ UNCHANGED <<arg, out, uiVars>>

\* the button of CostsPanel that clears all overrides
ClearOverrides ==
  /\ CanAct
  /\ tab = "costs"
  /\ DOMAIN rowCostOverride # {}
  /\ SetRowCostOverride(EmptyObject)
  /\ Did("clearOverrides", 0, "", <<>>)
  /\ UNCHANGED <<arg, out, uiVars>>

Next ==
  \/ RunMountEffects
  \/ Rerender
  \/ \E f \in Files : OnFile(f)
  \/ OnFileDone
  \/ \E k \in 1..MaxToasts : RemoveToast(k)
  \/ \E t \in Tabs : SetTab(t)
  \/ \E v \in Views : SetOverviewView(v)
  \/ \E g \in {All} \cup groupOptions : SelectGroup(g)
  \/ \E key \in DOMAIN PickedDay : PickDate(key)
  \/ \E key \in {"profit", "payout"} : ClickSort(key)
  \/ \E n \in PageSizes : SelectPageSize(n)
  \/ OnReset
  \/ \E g \in EditedGroups, input \in CostInputs : EditCategoryCost(g, input)
  \/ \E i \in 1..Len(rows), input \in CostInputs : EditOverride(i, input)
  \/ \E i \in 1..Len(rows) : RestoreOverride(i)
  \/ ClearOverrides

Spec == Init /\ [][Next]_vars

\* the guard of OnFileDone; a step of OnFileDone always changes isParsing
OnFileDoneEnabled == mount = "ready" /\ isParsing /\ Len(toasts) < MaxToasts

\* The promise onFile awaits settles, and the timeout of a toast fires: weak
\* fairness of OnFileDone, written out with its guard for ENABLED, and weak
\* fairness of RemoveToast
FairSpec ==
  /\ Spec
  /\ ([]<>(~OnFileDoneEnabled) \/ []<><<OnFileDone>>_vars)
  /\ WF_vars(\E k \in 1..MaxToasts : RemoveToast(k))

-----------------------------------------------------------------------------
(* Properties of the page (Spec) *)

\* C3: in every reachable state of the page every row carries the label
\* classifyTitleGroup gives its name; the label is assigned at ingestion and
\* no later operation changes it.
C3_TitleGroupOfName ==
  \A i \in 1..Len(rows) : rows[i].titleGroup = classifyTitleGroup(rows[i].name)

\* rows are loaded and the user has since edited a cost, changed a filter or
\* the sort order
C3_Witness ==
  /\ Len(rows) >= 2
  /\ lastOp.kind \in {"editOverride", "editCategoryCost", "selectGroup", "clickSort"}

\* the unit cost the precedence rule gives a row: its finite override, else
\* the finite default of its category, else 0
CategoryDefault(r) ==
  IF r.titleGroup \in DOMAIN costMap /\ costMap[r.titleGroup].t \in {"num", "big"}
  THEN costMap[r.titleGroup]
  ELSE JsNum(0)

PrescribedCost(r) ==
  LET id == rowId(r)
  IN  IF id \in DOMAIN rowCostOverride /\ rowCostOverride[id].t \in {"num", "big"}
      THEN rowCostOverride[id]
      ELSE CategoryDefault(r)

\* C8: costPerLotForRow(r) is the override stored under rowId(r) when that is
\* a finite number, else the category default of r.titleGroup, else 0; right
\* after an override x is typed for a row its unit cost is x, and right after
\* its override is removed its unit cost is the category default.
C8_CostPrecedence ==
  /\ \A i \in 1..Len(rows) : costPerLotForRow(rows[i]) = PrescribedCost(rows[i])
  /\ (lastOp.kind = "editOverride" /\ lastOp.input = <<"1",".","5">>)
       => costPerLotForRow(rows[lastOp.i]) = JsNum(150)
  /\ (lastOp.kind = "editOverride" /\ lastOp.input = <<"1","e","3","0","8">>)
       => costPerLotForRow(rows[lastOp.i]) = JsBig(1)
  /\ (lastOp.kind = "restoreOverride" \/ (lastOp.kind = "editOverride" /\ lastOp.input = <<>>))
       => costPerLotForRow(rows[lastOp.i]) = CategoryDefault(rows[lastOp.i])

\* an override has just been removed from one row while another row keeps a
\* finite override that differs from its category default
C8_Witness ==
  /\ lastOp.kind = "restoreOverride"
  /\ \E i \in 1..Len(rows) :
        /\ Get(rowCostOverride, rowId(rows[i])).t = "num"
        /\ costPerLotForRow(rows[i]) # CategoryDefault(rows[i])

\* C9: totalCostOf(r) = costPerLotForRow(r) * lotCount(r.name); profitOf(r) is
\* payout - total cost when the payout is greater than 0 and 0 otherwise; the
\* order "100 Lot Master Ball Holo" with payout 500 and the default 0.7 has
\* lot 100, total cost 70 and profit 430.
C9_ProfitRule ==
  \A i \in 1..Len(rows) :
    LET r     == rows[i]
        total == totalCostOf(r)
    IN  /\ total = Times(costPerLotForRow(r), parseLotCountFromTitle(r.name))
        /\ profitOf(r) = IF r.payoutCny > 0 THEN Minus(r.payoutCny, total)
                          ELSE JsNum(0)
        /\ ( /\ r = MapRawRow(RawMasterBall)
             /\ Get(costMap, "Master Ball") = JsNum(70)
             /\ rowId(r) \notin DOMAIN rowCostOverride )
           => ( /\ lotCountOf(r) = 100
                /\ total = JsNum(7000)
                /\ profitOf(r) = JsNum(43000) )

\* cost * lot leaves the range of a double
Overflows(cost, lot) == cost.t = "big" /\ lot \notin {0 - 1, 0, 1}

IsFiniteNumber(x) == x.t \in {"num", "big"}

OverrideStep ==
  LET id == rowId(rows[lastOp'.i])
      n  == StringToNumber(lastOp'.input)
      others == (DOMAIN rowCostOverride \cup DOMAIN rowCostOverride') \ {id}
  IN  CASE lastOp'.kind = "editOverride" ->
             /\ IF lastOp'.input # <<>> /\ NumberIsFinite(n)
                THEN id \in DOMAIN rowCostOverride' /\ rowCostOverride'[id] = n
                ELSE id \notin DOMAIN rowCostOverride'
             /\ \A k \in others : Get(rowCostOverride', k) = Get(rowCostOverride, k)
        [] lastOp'.kind = "restoreOverride" ->
             /\ id \notin DOMAIN rowCostOverride'
             /\ \A k \in others : Get(rowCostOverride', k) = Get(rowCostOverride, k)
        [] lastOp'.kind = "clearOverrides" -> DOMAIN rowCostOverride' = {}
        [] OTHER -> rowCostOverride' = rowCostOverride

\* every entry of the override table is a finite number
OverridesFinite ==
  \A id \in DOMAIN rowCostOverride : NumberIsFinite(rowCostOverride[id])

SameOrder(a, b) ==
  /\ a.sku = b.sku
  /\ a.name = b.name
  /\ a.paidAt = b.paidAt
  /\ a.payoutAt = b.payoutAt

\* C12: a step that replaces the rows (an upload) leaves the override table
\* and the category table as they are; a row that agrees with a row of before
\* the step on sku, name, paidAt and payoutAt has that row's identifier,
\* whatever its other fields; and if the override table held a finite number
\* for it before the upload, that number is its unit cost after the upload
\* (the calculators read the two tables, which the step has left alone).
C12_StableIdentifiers ==
  [][rows' # rows =>
       /\ rowCostOverride' = rowCostOverride
       /\ costMap' = costMap
       /\ \A old \in {rows[i] : i \in 1..Len(rows)} :
            \A new \in {rows'[j] : j \in 1..Len(rows')} :
              SameOrder(old, new) =>
                LET id == rowId(old)
                IN  /\ rowId(new) = id
                    /\ NumberIsFinite(Get(rowCostOverride, id))
                         => costPerLotForRow(new) = rowCostOverride[id] ]_vars

\* a second upload has replaced the rows, and a row on screen has the unit
\* cost the override table holds for it
C12_Witness ==
  /\ lastOp.kind = "onFileDone"
  /\ toasts = <<"success", "success">>
  /\ ops >= 2
  /\ \E i \in 1..Len(rows) :
       /\ NumberIsFinite(Get(rowCostOverride, rowId(rows[i])))
       /\ costPerLotForRow(rows[i]) = rowCostOverride[rowId(rows[i])]
       /\ costPerLotForRow(rows[i]) # costPerLotOfGroup(rows[i].titleGroup)

\* C14: rows with one identifier, in particular the rows of a dataset that
\* agree on sku, name, paidAt and payoutAt, are one override target: after an
\* edit with a finite number through one of them that number is the unit cost
\* of each of them, and after an empty input or a restore click through one
\* of them each of them is back at the default of its category.
C14_OneOverrideTarget ==
  lastOp.kind \in {"editOverride", "restoreOverride"} =>
    LET r  == rows[lastOp.i]
        id == rowId(r)
        n  == StringToNumber(lastOp.input)
    IN  \A j \in 1..Len(rows) :
          (SameOrder(rows[j], r) \/ rowId(rows[j]) = id) =>
            /\ Get(rowCostOverride, rowId(rows[j])) = Get(rowCostOverride, id)
            /\ costPerLotForRow(rows[j]) =
                 IF lastOp.kind = "editOverride" /\ lastOp.input # <<>> /\ NumberIsFinite(n)
                 THEN n
                 ELSE costPerLotOfGroup(rows[j].titleGroup)

\* an override typed into one line of an order is the unit cost of the other
\* line of the order
C14_Witness ==
  /\ lastOp.kind = "editOverride"
  /\ lastOp.input # <<>>
  /\ \E j \in 1..Len(rows) :
       /\ j # lastOp.i
       /\ rows[j] # rows[lastOp.i]
       /\ rowId(rows[j]) = rowId(rows[lastOp.i])
       /\ costPerLotForRow(rows[j]) = StringToNumber(lastOp.input)
       /\ costPerLotForRow(rows[j]) # costPerLotOfGroup(rows[j].titleGroup)

\* the date dt lies in the window the two date inputs named describe; a
\* bound counts when a day is picked, and with a bound a missing date is
\* outside
InWindow(dt, startKey, endKey) ==
  LET DayNo(d) == d.y * 10000 + d.mo * 100 + d.d
  IN  \/ filters[startKey] = <<>> /\ filters[endKey] = <<>>
      \/ /\ dt.some
         /\ filters[startKey] # <<>> => DayNo(PickedDay[startKey]) <= DayNo(dt)
         /\ filters[endKey] # <<>> => DayNo(dt) <= DayNo(PickedDay[endKey])

\* each windowed row set holds the base rows of its own window: the payout
\* date of a row plays no part in paidRows, nor its paid date in payoutRows,
\* and listRows holds the rows of both windows
WindowsApart ==
  \A i \in baseRows :
    LET Holds(list) == \E k \in 1..Len(list) : list[k] = rows[i]
        paid   == InWindow(rows[i].paidAt, "paidStartYmd", "paidEndYmd")
        payout == InWindow(rows[i].payoutAt, "payoutStartYmd", "payoutEndYmd")
    IN  /\ Holds(paidRows) <=> paid
        /\ Holds(payoutRows) <=> payout
        /\ Holds(listRows) <=> (paid /\ payout)

\* the base rows whose date of the given field lies in the window of the two
\* date inputs named, in the order of the rows
WindowRows(field, startKey, endKey) ==
  LET in     == {i \in baseRows : InWindow(rows[i][field], startKey, endKey)}
      Nth(k) == CHOOSE i \in in : Cardinality({j \in in : j <= i}) = k
  IN  [k \in 1..Cardinality(in) |-> rows[Nth(k)]]

\* what the page shows of GMV is computed from the rows of the paid window
\* and the paid range alone, and what it shows of payout, cost and profit from
\* the rows of the payout window, the payout range and the cost tables alone
OwnWindowAggregates ==
  LET k      == kpi
      paid   == WindowRows("paidAt", "paidStartYmd", "paidEndYmd")
      payout == WindowRows("payoutAt", "payoutStartYmd", "payoutEndYmd")
  IN  /\ paidRows = paid
      /\ payoutRows = payout
      /\ k.gmvUsd = SumSeq([i \in 1..Len(paid) |-> paid[i].gmvUsd])
      /\ top10.gmv = agg(paid, "gmvUsd")
      /\ gmvSeries = buildDailySeries(paid, "paidAt", "gmvUsd",
                                      filters.paidStartYmd, filters.paidEndYmd)
      /\ k.payoutCny = SumSeq([i \in 1..Len(payout) |-> payout[i].payoutCny])
      /\ k.totalCost = SumJs([i \in 1..Len(payout) |->
                                IF payout[i].payoutCny # 0
                                THEN totalCostOf(payout[i]) ELSE JsNum(0)])
      /\ k.totalProfit = SumJs([i \in 1..Len(payout) |-> profitOf(payout[i])])
      /\ top10.payout = agg(payout, "payoutCny")
      /\ payoutSeries = buildDailySeries(payout, "payoutAt", "payoutCny",
                                         filters.payoutStartYmd, filters.payoutEndYmd)

\* C17: no row is left out of the paid-windowed rows because of its payout
\* date, nor out of the payout-windowed rows because of its paid date, and
\* the list applies both ranges; the GMV total, top 10 and daily series are
\* computed from the rows of the paid window, the payout, cost and profit
\* totals and the payout top 10 and series from the rows of the payout
\* window; and the paid-windowed rows are the same before and after every
\* change of the filters that leaves the base filters and the paid range as
\* they are, likewise the payout-windowed rows under a change of the paid
\* range.
C17_WindowIndependence ==
  /\ [](WindowsApart /\ OwnWindowAggregates)
  /\ [][ LET baseSame == /\ filters' # filters
                         /\ rows' = rows
                         /\ filters'.status = filters.status
                         /\ filters'.category = filters.category
                         /\ filters'.group = filters.group
                         /\ filters'.q = filters.q
         IN  /\ ( /\ baseSame
                  /\ filters'.paidStartYmd = filters.paidStartYmd
                  /\ filters'.paidEndYmd = filters.paidEndYmd ) => paidRows' = paidRows
             /\ ( /\ baseSame
                  /\ filters'.payoutStartYmd = filters.payoutStartYmd
                  /\ filters'.payoutEndYmd = filters.payoutEndYmd ) => payoutRows' = payoutRows ]_vars

\* a day has just been picked as a bound of the payout range, and a row
\* whose payout date is outside that range is among the paid-windowed rows
\* but not in the list
C17_Witness ==
  /\ lastOp.kind = "pickDate"
  /\ lastOp.group \in {"payoutStartYmd", "payoutEndYmd"}
  /\ filters[lastOp.group] # <<>>
  /\ \E k \in 1..Len(paidRows) :
       /\ \A j \in 1..Len(payoutRows) : payoutRows[j] # paidRows[k]
       /\ \A j \in 1..Len(listRows) : listRows[j] # paidRows[k]
  /\ kpi.gmvUsd > 0
  /\ Len(listRows) >= 1

\* C15: once the page has loaded its persisted documents, and before any
\* cost is edited, the category table is COST_DEFAULTS overlaid with the
\* entries of the persisted document (COST_DEFAULTS itself when there is no
\* document or it does not parse), so a category of COST_DEFAULTS that the
\* document does not name keeps its built-in cost.
C15_MergedOverDefaults ==
  (mount = "ready" /\ ops = 0) =>
    LET Overlaid == [g \in DOMAIN COST_DEFAULTS \cup DOMAIN StoredCostTable |->
                       IF g \in DOMAIN StoredCostTable THEN StoredCostTable[g]
                       ELSE COST_DEFAULTS[g]]
    IN  /\ costMap \in {COST_DEFAULTS, Overlaid}
        /\ \A g \in DOMAIN COST_DEFAULTS \ DOMAIN StoredCostTable :
             Get(costMap, g) = COST_DEFAULTS[g]

-----------------------------------------------------------------------------
(* The pure functions of the page, applied to bounded inputs (SpecCalc) *)

\* the page's own state plays no part in the calls below
PageIdle ==
  /\ rows = <<>>
  /\ isParsing = FALSE
  /\ tab = "overview"
  /\ overviewView = "top10-profit"
  /\ toasts = <<>>
  /\ costMap = <<>>
  /\ rowCostOverride = <<>>
  /\ stored = <<>>
  /\ loadedRef = <<>>
  /\ pending = <<>>
  /\ mount = "none"
  /\ strictMode = FALSE
  /\ filters = <<>>
  /\ upload = <<>>
  /\ ops = 0
  /\ lastOp = <<>>

\* pairs of rows for rowId: sku and name with and without the separator in
\* them, each date present or missing
KeyInputs ==
  LET KeySkus  == { <<>>, <<"A">>, <<"A","|","B">> }
      KeyNames == { <<>>, <<"C">>, <<"B","|","C">> }
      KeyRows  ==
        { [sku |-> s, name |-> n, paidAt |-> p, payoutAt |-> q] :
            s \in KeySkus, n \in KeyNames,
            p \in {NoDate, DateOf(2024, 1, 2, 36000000)},
            q \in {NoDate, DateOf(2024, 1, 9, 0)} }
  IN  { [fn |-> "rowId", a |-> a, b |-> b] : a \in KeyRows, b \in KeyRows }

\* rows around the end of February 2024: dated at the last instant of a
\* day, at the first instant of the next one, or not dated
CalcRows ==
  LET Row(paid, payout, gmv, cny, g) ==
        [paidAt |-> paid, payoutAt |-> payout, gmvUsd |-> gmv, payoutCny |-> cny,
         titleGroup |-> g]
  IN  { Row(NoDate, DateOf(2024, 2, 29, 0), 1000, 500, "Mix"),
        Row(DateOf(2024, 2, 28, 86399999), NoDate, 250, 0, "Sealed"),
        Row(DateOf(2024, 2, 29, 0), DateOf(2024, 3, 1, 0), 1000, 7000, "Mix"),
        Row(DateOf(2024, 2, 29, 86399999), DateOf(2024, 2, 28, 86399999), 0, 125, "OCD"),
        Row(DateOf(2024, 3, 1, 0), DateOf(2024, 2, 29, 0), 333, 500, "Sealed") }

CalcRowLists == UNION {[1..n -> CalcRows] : n \in 0..MaxCalcRows}

\* the day picked in a date input, if any
StartDays == {NoDate, DateOf(2024, 2, 29, 0)}
EndDays   == {NoDate, DateOf(2024, 2, 28, 0), DateOf(2024, 2, 29, 0)}

FilterInputs ==
  { [fn |-> "filterByDate", input |-> l, getDt |-> f, start |-> s, end |-> e] :
      l \in CalcRowLists, f \in {"paidAt", "payoutAt"}, s \in StartDays, e \in EndDays }

Uncalled == [called |-> FALSE, v |-> <<>>]

Returned(v) == [called |-> TRUE, v |-> v]

\* the keys rowId builds of two rows
CallRowId ==
  /\ arg.fn = "rowId"
  /\ ~out.called
  /\ out' = Returned(<<rowKey(arg.a), rowKey(arg.b)>>)
  /\ UNCHANGED <<arg, pageVars>>

\* series of the paid and of the payout amounts; a bound is unset, or a day
\* before, among or after the days of the rows
SeriesInputs ==
  { [fn |-> "buildDailySeries", input |-> l, getDt |-> f[1], getVal |-> f[2],
     start |-> s, end |-> e] :
      l \in CalcRowLists, f \in {<<"paidAt", "gmvUsd">>, <<"payoutAt", "payoutCny">>},
      s \in {NoDate, DateOf(2024, 2, 27, 0), DateOf(2024, 2, 29, 0)},
      e \in {NoDate, DateOf(2024, 2, 28, 0), DateOf(2024, 3, 2, 0)} }

CallBuildDailySeries ==
  /\ arg.fn = "buildDailySeries"
  /\ ~out.called
  /\ out' = Returned(buildDailySeries(arg.input, arg.getDt, arg.getVal,
                                      YmdOf(arg.start), YmdOf(arg.end)))
  /\ UNCHANGED <<arg, pageVars>>

\* rows of twelve groups, some with equal amounts, one negative, one zero
TopRows ==
  LET Row(g, gmv, cny) == [titleGroup |-> g, gmvUsd |-> gmv, payoutCny |-> cny]
  IN  << Row("KFC Pack", 500, 100), Row("Sealed", 300, 100), Row("TAG TEAM", 500, 0),
         Row("OCD", 0, 700), Row("Master Ball", 900, 0 - 500), Row("Mix", 300, 100),
         Row("AR/CHR", 0 - 100, 200), Row("SR/HR", 700, 200), Row("Japanese", 300, 100),
         Row("RRR+VMAX", 100, 300), Row("RR+RRR", 600, 100), Row("", 200, 100) >>

\* a run of TopRows from any place on, around its end, followed by up to two
\* more rows of groups it holds
TopInputs ==
  LET Run(k, n) == [i \in 1..n |-> TopRows[((k + i - 2) % Len(TopRows)) + 1]]
      More == { [titleGroup |-> "Mix", gmvUsd |-> 400, payoutCny |-> 100],
                [titleGroup |-> "AR/CHR", gmvUsd |-> 100, payoutCny |-> 0 - 200],
                [titleGroup |-> "Other", gmvUsd |-> 300, payoutCny |-> 50] }
  IN  { [fn |-> "agg", input |-> Run(k, n) \o m, getVal |-> f] :
          k \in 1..Len(TopRows), n \in 0..MaxTopRows,
          m \in UNION {[1..e -> More] : e \in 0..2},
          f \in {"gmvUsd", "payoutCny"} }

CallAgg ==
  /\ arg.fn = "agg"
  /\ ~out.called
  /\ out' = Returned(agg(arg.input, arg.getVal))
  /\ UNCHANGED <<arg, pageVars>>

\* arrays of up to MaxSample amounts in no particular order, with the two
\* values of p the report uses (0.1 and 0.9, in tenths)
PercentileInputs ==
  LET Amounts == <<700, 100, 1100, 300, 900, 500, 200, 1000, 400, 800, 600>>
      Run(k, n) == [i \in 1..n |-> Amounts[((k + i - 2) % Len(Amounts)) + 1]]
  IN  { [fn |-> "percentile", arr |-> Run(k, n), p |-> p] :
          k \in 1..Len(Amounts), n \in 0..MaxSample, p \in {1, 9} }

CallPercentile ==
  /\ arg.fn = "percentile"
  /\ ~out.called
  /\ out' = Returned(percentile(arg.arr, arg.p))
  /\ UNCHANGED <<arg, pageVars>>

CallFilterByDate ==
  /\ arg.fn = "filterByDate"
  /\ ~out.called
  /\ out' = Returned(filterByDate(arg.input, arg.getDt, YmdOf(arg.start), YmdOf(arg.end)))
  /\ UNCHANGED <<arg, pageVars>>

\* base rows for the report: n rows, the last k of them labelled "Other"
ReportInputs ==
  LET Base(n, k) == [i \in 1..n |-> [titleGroup |-> IF i > n - k THEN "Other" ELSE "Mix"]]
  IN  { [fn |-> "report", base |-> Base(n, k)] : n \in 0..MaxReportRows, k \in 0..2 }

CallReport ==
  /\ arg.fn = "report"
  /\ ~out.called
  /\ out' = Returned(SuggestsOtherRules(arg.base))
  /\ UNCHANGED <<arg, pageVars>>

\* cells of a numeric column: empty cells, numbers, and texts made of an
\* optional currency symbol, an optional sign, an amount with or without
\* thousands separators or no amount at all, and spaces around them
CellInputs ==
  LET Symbols == { <<>>, <<"$">> }
      Signs   == { <<>>, <<"-">> }
      Amounts == { <<>>, <<"5","0","0">>, <<"1",",","2","3","4",".","5","0">>,
                   <<"1","2",",","3","4","5">>, <<"0",".","5">>, <<"n","/","a">> }
      Spaces  == { <<>>, <<" ">> }
      Texts   == { JsStr(b \o c \o sg \o a \o e) :
                     b \in Spaces, c \in Symbols, sg \in Signs, a \in Amounts, e \in Spaces }
      Numbers == { JsNum(0), JsNum(123450), JsNum(0 - 500), JsInf(1), JsInf(0 - 1), JsNaN }
  IN  { [fn |-> "toNumber", v |-> v] : v \in Texts \cup Numbers \cup {JsNull, JsUndef} }

CallToNumber ==
  /\ arg.fn = "toNumber"
  /\ ~out.called
  /\ out' = Returned(toNumber(arg.v))
  /\ UNCHANGED <<arg, pageVars>>

\* filter states the page can be in: some filters set, on the first or on a
\* later page
FilterStates ==
  { [initialFilters EXCEPT !.page = p, !.group = g, !.q = q, !.paidEndYmd = e,
                           !.sortDir = d, !.pageSize = n] :
      p \in {1, 2, 7}, g \in {All, "Mix"}, q \in {<<>>, <<"r","r">>},
      e \in {<<>>, YmdOf(DateOf(2024, 1, 3, 0))}, d \in {"asc", "desc"}, n \in {20, 50} }

\* the actions the page dispatches: a "set" of each filter, date, sort and
\* page-size key, "setPage" from the buttons and the clamp effect, "reset"
ReducerActions ==
  << SetAction("status", All), SetAction("status", "Paid"),
     SetAction("category", All), SetAction("category", "Cards"),
     SetAction("group", All), SetAction("group", "Mix"),
     SetAction("q", <<>>), SetAction("q", <<"r","r">>),
     SetAction("paidStartYmd", <<>>), SetAction("paidStartYmd", YmdOf(DateOf(2024, 1, 3, 0))),
     SetAction("paidEndYmd", <<>>), SetAction("paidEndYmd", YmdOf(DateOf(2024, 1, 3, 0))),
     SetAction("payoutStartYmd", <<>>), SetAction("payoutStartYmd", YmdOf(DateOf(2024, 1, 10, 0))),
     SetAction("payoutEndYmd", <<>>), SetAction("payoutEndYmd", YmdOf(DateOf(2024, 1, 10, 0))),
     SetAction("sortKey", "profit"), SetAction("sortKey", "payout"),
     SetAction("sortDir", "asc"), SetAction("sortDir", "desc"),
     SetAction("pageSize", 20), SetAction("pageSize", 50), SetAction("pageSize", 200),
     SetPageAction(1), SetPageAction(2), SetPageAction(6), SetPageAction(8),
     ResetAction >>

ReducerInputs ==
  { [fn |-> "filtersReducer", state |-> s, act |-> k] :
      s \in FilterStates, k \in 1..Len(ReducerActions) }

CallFiltersReducer ==
  /\ arg.fn = "filtersReducer"
  /\ ~out.called
  /\ out' = Returned(filtersReducer(arg.state, ReducerActions[arg.act]))
  /\ UNCHANGED <<arg, pageVars>>

\* /\bw1\s*w2\s*w3\b/i.test(t)
HasWordTriple(t, w1, w2, w3) ==
  \E i \in 1..Len(t) :
    /\ Boundary(t, i - 1)
    /\ LitAt(t, i, w1)
    /\ LET j == SkipSpaces(t, i + Len(w1))
       IN  /\ LitAt(t, j, w2)
           /\ LET k == SkipSpaces(t, j + Len(w2))
              IN  LitAt(t, k, w3) /\ Boundary(t, k + Len(w3) - 1)

\* the has... constants of classifyTitleGroup in src/unnamed/part_001, for a
\* normalised title t
Has_part001(t) ==
  [ kfcPack |-> /\ HasWord(t, <<"k","f","c">>)
                /\ (HasWord(t, <<"p","a","c","k">>) \/ HasWord(t, <<"p","a","c","k","s">>)),
    ocd     |-> HasWord(t, <<"o","c","d">>),
    tagTeam |-> HasWordPair(t, <<"t","a","g">>, <<"t","e","a","m">>),
    sealed  |-> HasWord(t, <<"s","e","a","l","e","d">>),
    masterBall |-> HasWordPair(t, <<"m","a","s","t","e","r">>, <<"b","a","l","l">>),
    logoReverseHolo |-> HasWordTriple(t, <<"l","o","g","o">>, <<"r","e","v","e","r","s","e">>,
                                      <<"h","o","l","o">>),
    ballHolo |-> HasWordPair(t, <<"b","a","l","l">>, <<"h","o","l","o">>),
    mix  |-> HasWord(t, <<"m","i","x">>),
    ar   |-> HasWord(t, <<"a","r">>),
    chr  |-> HasWord(t, <<"c","h","r">>),
    sr   |-> HasWord(t, <<"s","r">>),
    hr   |-> HasWord(t, <<"h","r">>),
    rrr  |-> HasWord(t, <<"r","r","r">>),
    rr   |-> HasWord(t, <<"r","r">>),
    vmax |-> HasWord(t, <<"v","m","a","x">>),
    otherRarity |->
      \/ HasWord(t, <<"r","r","r","r">>)
      \/ HasWord(t, <<"u","r">>)
      \/ HasWord(t, <<"s","s","r">>)
      \/ HasWord(t, <<"s","r">>)
      \/ HasWord(t, <<"h","r">>)
      \/ HasWord(t, <<"a","r">>)
      \/ HasWord(t, <<"c","h","r">>)
      \/ HasWordPair(t, <<"t","a","g">>, <<"t","e","a","m">>),
    japanese |-> HasWord(t, <<"j","a","p","a","n","e","s","e">>) ]

\* the chain of if ... return of classifyTitleGroup in src/unnamed/part_001
TitleRules_part001(has) ==
  << [name |-> "KFC Pack",  test |-> has.kfcPack],
     [name |-> "OCD",       test |-> has.ocd],
     [name |-> "TAG TEAM",  test |-> has.tagTeam],
     [name |-> "Sealed",    test |-> has.sealed],
     [name |-> "Master Ball", test |-> has.masterBall],
     [name |-> "Logo Reverse Holo", test |-> has.logoReverseHolo],
     [name |-> "Ball Holo", test |-> has.ballHolo],
     [name |-> "Mix",       test |-> has.mix],
     [name |-> "AR/CHR",    test |-> has.ar \/ has.chr],
     [name |-> "SR/HR",     test |-> (has.sr \/ has.hr) /\ ~has.ocd],
     [name |-> "Japanese",  test |-> has.japanese],
     [name |-> "RRR+VMAX Only", test |-> has.rrr /\ has.vmax /\ ~has.rr /\ ~has.otherRarity],
     [name |-> "RR+RRR Only", test |-> has.rr /\ has.rrr /\ ~has.vmax /\ ~has.otherRarity],
     [name |-> "RR Only",   test |-> has.rr /\ ~has.rrr /\ ~has.vmax /\ ~has.otherRarity],
     [name |-> "RRR Only",  test |-> has.rrr /\ ~has.rr /\ ~has.vmax /\ ~has.otherRarity],
     [name |-> "VMAX Only", test |-> has.vmax /\ ~has.rr /\ ~has.rrr /\ ~has.otherRarity] >>

classifyTitleGroup_part001(title) ==
  FirstMatch(TitleRules_part001(Has_part001(NormTitle(title))), 1)

\* the keys of COST_DEFAULTS in src/unnamed/part_001
COST_DEFAULTS_part001 ==
  { "AR/CHR", "Ball Holo", "Japanese", "KFC Pack", "Logo Reverse Holo", "Master Ball",
    "Mix", "OCD", "RR Only", "RR+RRR", "RRR+VMAX", "SR/HR", "Sealed", "TAG TEAM",
    "Trainer Item / Supporter", "V/VMAX/VSTAR", "VSTAR Universe",
    "VSTAR Universe (Sealed)", "VSTAR Universe (Singles)", "VSTAR Universe (Lots)",
    "VSTAR Universe (Master Ball)", "VSTAR Universe (AR/CHR)", "VSTAR Universe (SR/HR)",
    "Other" }

\* titles for the two versions of the classifier: the key words alone, and
\* up to MaxTitleWords rarity words
VersionInputs ==
  { [fn |-> "classifyTitleGroup", title |-> t] :
      t \in KeyWords \cup RarityTitles \cup ExampleTitles
             \cup { <<"K","F","C"," ","P","a","c","k","s">>,
                    <<"L","o","g","o"," ","R","e","v","e","r","s","e"," ","H","o","l","o">>,
                    <<"B","a","l","l"," ","H","o","l","o">> } }

\* the label of the title from classifyTitleGroup of src/app/page.tsx and
\* from classifyTitleGroup of src/unnamed/part_001
CallClassifyVersions ==
  /\ arg.fn = "classifyTitleGroup"
  /\ ~out.called
  /\ out' = Returned([page |-> classifyTitleGroup(arg.title),
                      part001 |-> classifyTitleGroup_part001(arg.title)])
  /\ UNCHANGED <<arg, pageVars>>

CalcInputs ==
  KeyInputs \cup FilterInputs \cup SeriesInputs \cup TopInputs \cup PercentileInputs
    \cup ReportInputs \cup CellInputs \cup ReducerInputs \cup VersionInputs

InitCalc ==
  /\ arg \in CalcInputs
  /\ out = Uncalled
  /\ PageIdle

NextCalc ==
  \/ CallRowId
  \/ CallFilterByDate
  \/ CallBuildDailySeries
  \/ CallAgg
  \/ CallPercentile
  \/ CallReport
  \/ CallToNumber
  \/ CallFiltersReducer
  \/ CallClassifyVersions

SpecCalc == InitCalc /\ [][NextCalc]_vars

\* C13: the keys rowId builds of two rows are equal exactly when the rows
\* agree on sku, on name, on paidAt and on payoutAt, also when a sku or a name
\* holds the separator "|".
C13_KeyInjective ==
  (arg.fn = "rowId" /\ out.called) =>
    ((out.v[1] = out.v[2]) <=> SameOrder(arg.a, arg.b))

\* C16: filterByDate returns exactly the records, in the order of the input,
\* whose selected date is present and lies from the first instant of the
\* start day to 23:59:59.999 of the end day, a bound applying only when it is
\* set; with a bound set a record without the selected date is left out, and
\* with no bound set every record is kept.
C16_FilterByDate ==
  (arg.fn = "filterByDate" /\ out.called) =>
    LET DayNo(dt) == dt.y * 10000 + dt.mo * 100 + dt.d
        Passes(r) ==
          LET dt == r[arg.getDt]
          IN  IF ~arg.start.some /\ ~arg.end.some THEN TRUE
              ELSE /\ dt.some
                   /\ arg.start.some => DayNo(arg.start) <= DayNo(dt)
                   /\ arg.end.some => DayNo(dt) <= DayNo(arg.end)
        Kept   == {i \in 1..Len(arg.input) : Passes(arg.input[i])}
        Nth(k) == CHOOSE i \in Kept : Cardinality({j \in Kept : j <= i}) = k
    IN  /\ Len(out.v) = Cardinality(Kept)
        /\ \A k \in 1..Len(out.v) : out.v[k] = arg.input[Nth(k)]

\* both bounds are set to one day; a record of the last millisecond of that
\* day is kept, a record without the date and a record of another day are not
C16_Witness ==
  /\ arg.fn = "filterByDate"
  /\ out.called
  /\ arg.start.some /\ arg.end = arg.start
  /\ \E k \in 1..Len(out.v) : out.v[k][arg.getDt].ms = 86399999
  /\ \E i \in 1..Len(arg.input) : ~arg.input[i][arg.getDt].some
  /\ Len(out.v) + 2 <= Len(arg.input)

\* the calendar around the end of February 2024, each day with the text of
\* its point
Calendar ==
  << [y |-> 2024, mo |-> 2, d |-> 27, text |-> <<"2","0","2","4","-","0","2","-","2","7">>],
     [y |-> 2024, mo |-> 2, d |-> 28, text |-> <<"2","0","2","4","-","0","2","-","2","8">>],
     [y |-> 2024, mo |-> 2, d |-> 29, text |-> <<"2","0","2","4","-","0","2","-","2","9">>],
     [y |-> 2024, mo |-> 3, d |-> 1,  text |-> <<"2","0","2","4","-","0","3","-","0","1">>],
     [y |-> 2024, mo |-> 3, d |-> 2,  text |-> <<"2","0","2","4","-","0","3","-","0","2">>] >>

\* the place of the day of a date in Calendar
CalendarIndex(dt) ==
  CHOOSE k \in 1..Len(Calendar) :
    Calendar[k].y = dt.y /\ Calendar[k].mo = dt.mo /\ Calendar[k].d = dt.d

\* the series the dense daily series rule prescribes for the arguments of
\* the call: a point for each day from first to last, each with the sum of
\* the records of that day
DenseSeries ==
  LET dated  == {i \in 1..Len(arg.input) : arg.input[i][arg.getDt].some}
      days   == {CalendarIndex(arg.input[i][arg.getDt]) : i \in dated}
      first  == IF arg.start.some THEN CalendarIndex(arg.start)
                ELSE IF days = {} THEN 0
                ELSE CHOOSE k \in days : \A j \in days : k <= j
      last   == IF arg.end.some THEN CalendarIndex(arg.end)
                ELSE IF days = {} THEN 0
                ELSE CHOOSE k \in days : \A j \in days : k >= j
      Total(k) == SumSeq([i \in 1..Len(arg.input) |->
                            IF i \in dated /\ CalendarIndex(arg.input[i][arg.getDt]) = k
                            THEN arg.input[i][arg.getVal] ELSE 0])
  IN  IF first = 0 \/ last = 0 \/ last < first THEN <<>>
      ELSE [n \in 1..(last - first + 1) |->
              [date |-> Calendar[first + n - 1].text, value |-> Total(first + n - 1)]]

\* C18: buildDailySeries returns one point for each calendar day from the
\* resolved start to the resolved end (a given bound, else the earliest or
\* latest day of a record), in ascending order, none skipped or repeated,
\* each with the sum of the values of the records of that day and 0 for a day
\* without records, also when bounds are given and no record lies in them.
C18_DenseSeries ==
  (arg.fn = "buildDailySeries" /\ out.called) => out.v = DenseSeries

\* the same for a list of at least one record
C18_DenseUnlessEmpty ==
  (arg.fn = "buildDailySeries" /\ out.called /\ arg.input # <<>>) => out.v = DenseSeries

C20_NearestRank ==
  (arg.fn = "percentile" /\ out.called) =>
    LET n     == Len(arg.arr)
        ceil  == (arg.p * n + 9) \div 10
        rank  == IF ceil < 1 THEN 1 ELSE ceil
        Below(v) == Cardinality({i \in 1..n : arg.arr[i] < v})
        UpTo(v)  == Cardinality({i \in 1..n : arg.arr[i] <= v})
    IN  IF n = 0 THEN out.v = 0
        ELSE /\ \E i \in 1..n : arg.arr[i] = out.v
             /\ Below(out.v) < rank
             /\ rank <= UpTo(out.v)

\* percentile returns 0 for an empty array and a number of the array
\* otherwise
C20_WithinArray ==
  (arg.fn = "percentile" /\ out.called) =>
    IF arg.arr = <<>> THEN out.v = 0 ELSE \E i \in 1..Len(arg.arr) : arg.arr[i] = out.v

\* C21: the report's actions hold the suggestion to add the keywords of the
\* Other list to the classification rules exactly when the unclassified rate,
\* the base rows labelled "Other" divided by all base rows, is at least 5%;
\* with at least one base row and a rate below 5% the suggestion is absent.
C21_OtherThreshold ==
  (arg.fn = "report" /\ out.called) =>
    LET n      == Len(arg.base)
        others == Cardinality({i \in 1..n : arg.base[i].titleGroup = "Other"})
    IN  out.v <=> (n > 0 /\ 20 * others >= n)

\* the suggestion is in the actions exactly when a base row is labelled
\* "Other"
C21_AnyOther ==
  (arg.fn = "report" /\ out.called) =>
    (out.v <=> \E i \in 1..Len(arg.base) : arg.base[i].titleGroup = "Other")

\* C22: when reading or parsing the uploaded file throws, onFile leaves the
\* rows, the active tab and the overview view as they were, pushes one error
\* toast and ends with isParsing = false; a call without a file does not
\* start parsing; and on every path isParsing is eventually false again.
C22_IngestionFailure ==
  /\ [][ /\ (isParsing /\ ~isParsing' /\ upload.kind = "bad") =>
              /\ rows' = rows
              /\ tab' = tab
              /\ overviewView' = overviewView
              /\ toasts' = Append(toasts, "error")
         /\ (~isParsing /\ isParsing') => upload'.kind \in {"bad", "sheet"}
         /\ (isParsing /\ upload' # upload) => ~isParsing' ]_vars
  /\ isParsing ~> ~isParsing

\* an unreadable file was uploaded after a sheet: the rows of the sheet are
\* still there, the error toast is the newest, the input is enabled again
C22_Witness ==
  /\ lastOp.kind = "onFileDone"
  /\ ~isParsing
  /\ rows # <<>>
  /\ tab = "orders"
  /\ toasts # <<>>
  /\ toasts[Len(toasts)] = "error"

\* the text of a cell without its thousands separators and currency symbols
RECURSIVE StripSeparatorsAndSymbols(_)
StripSeparatorsAndSymbols(cs) ==
  IF cs = <<>> THEN <<>>
  ELSE IF Head(cs) \in {",", "$"} THEN StripSeparatorsAndSymbols(Tail(cs))
  ELSE <<Head(cs)>> \o StripSeparatorsAndSymbols(Tail(cs))

\* the number a cell stands for, in hundredths: 0 for an empty or
\* non-numeric cell
CellValue(v) ==
  IF v.t \in {"null", "undef", "inf", "nan"} THEN 0
  ELSE IF v.t = "num" THEN v.n
  ELSE LET n == StringToNumber(Trim(StripSeparatorsAndSymbols(v.s)))
       IN  IF NumberIsFinite(n) THEN n.n ELSE 0

\* C23: toNumber strips thousands separators and currency symbols before it
\* parses, so "1,234.50" and "$1,234.50" resolve to 1234.5; null, undefined,
\* empty and non-numeric cells resolve to 0; the result is a finite number.
C23_NumericCells ==
  (arg.fn = "toNumber" /\ out.called) =>
    /\ out.v \in Int
    /\ out.v = CellValue(arg.v)

\* the same for cells without a currency symbol
C23_WithoutSymbols ==
  (arg.fn = "toNumber" /\ out.called /\ (arg.v.t = "str" => \A k \in 1..Len(arg.v.s) : arg.v.s[k] # "$")) =>
    /\ out.v \in Int
    /\ out.v = CellValue(arg.v)

\* a cell with a currency symbol resolves to 0
C23_SymbolGivesZero ==
  (arg.fn = "toNumber" /\ out.called /\ arg.v.t = "str"
     /\ \E k \in 1..Len(arg.v.s) : arg.v.s[k] = "$") => out.v = 0

\* C24: every row produced by mapRawRowsToRows has soldQty >= 0, gmvUsd >= 0
\* and payoutCny >= 0, whatever the cells hold, so no row of a reachable state
\* carries a negative quantity or amount.
C24_NonNegativeRows ==
  \A i \in 1..Len(rows) :
    rows[i].soldQty >= 0 /\ rows[i].gmvUsd >= 0 /\ rows[i].payoutCny >= 0

\* C25: a "set" of a filter, date-range, sort or page-size key yields a state
\* with page = 1 in which only that key and page differ from the previous
\* state; "setPage" yields page = max(1, requested page) and changes no other
\* field; "reset" yields initialFilters; so the page stays at 1 or above.
C25_PagingRule ==
  (arg.fn = "filtersReducer" /\ out.called) =>
    LET action == ReducerActions[arg.act]
        state  == arg.state
        next   == out.v
    IN  /\ DOMAIN next = DOMAIN state
        /\ action.type = "set" =>
             /\ action.key \in resetsPageKeys
             /\ next.page = 1
             /\ next[action.key] = action.value
             /\ \A k \in DOMAIN state \ {action.key, "page"} : next[k] = state[k]
        /\ action.type = "setPage" =>
             /\ next.page = (IF action.page >= 1 THEN action.page ELSE 1)
             /\ \A k \in DOMAIN state \ {"page"} : next[k] = state[k]
        /\ action.type = "reset" => next = initialFilters
        /\ next.page >= 1

\* on page 7 the page size is changed: the table is back on page 1 and the
\* other filters are as they were
C25_Witness ==
  /\ arg.fn = "filtersReducer"
  /\ out.called
  /\ ReducerActions[arg.act].type = "set"
  /\ ReducerActions[arg.act].key = "pageSize"
  /\ arg.state.page = 7
  /\ arg.state.pageSize # out.v.pageSize
  /\ arg.state.group = "Mix"
  /\ out.v.group = "Mix"
  /\ out.v.page = 1

-----------------------------------------------------------------------------
(* Paging of the orders table (PagingSpec): the page with sheets of more    *)
(* rows than a table page holds.  Paging reads the number of the rows and   *)
(* their groups only, so a row is here its titleGroup; the cost tables play *)
(* no part and stay as they are after the mount.                            *)

\* the rows of a sheet after mapRawRowsToRows: n rows, every third one
\* unclassified
PagingRows(n) == [i \in 1..n |-> [titleGroup |-> IF i % 3 = 0 THEN "Other" ELSE "Mix"]]

\* sheets of no rows, of less than a table page, and of MaxPagingRows rows
PagingSheets == {PagingRows(0), PagingRows(5), PagingRows(MaxPagingRows)}

\* sortedListRows.length for rows rs and filters f with no date picked: the
\* rows baseRows keeps, the sort being a permutation
totalRowsOf(rs, f) ==
  Cardinality({i \in 1..Len(rs) : f.group = All \/ rs[i].titleGroup = f.group})

\* OrdersTable: totalPages
totalPagesOf(rs, f) == Max(1, (totalRowsOf(rs, f) + f.pageSize - 1) \div f.pageSize)

\* a faulty variant: the page is not clamped
pageOfUnclamped(rs, f) == f.page

\* OrdersTable: page = Math.min(filters.page, totalPages)
pageOf(rs, f) ==
  IF f.page <= totalPagesOf(rs, f) THEN f.page ELSE totalPagesOf(rs, f)

\* Page.pagedRows, of the list before it is sorted
pagedRows ==
  LET start == (filters.page - 1) * filters.pageSize
      end   == IF start + filters.pageSize <= Len(listRows)
               THEN start + filters.pageSize ELSE Len(listRows)
  IN  IF start >= Len(listRows) THEN <<>> ELSE SubSeq(listRows, start + 1, end)

\* The filters after the render that shows rows rs, tab t and filters f, and
\* after its effects.  The clamp effect of OrdersTable runs when the table is
\* mounted by this render or when page differs from the page of the render
\* before; it dispatches setPage when filters.page is not page.  React runs
\* the effects of a render before it handles the next event.
AfterRender(rs, t, f) ==
  LET runs == t = "orders" /\ (tab # "orders" \/ pageOf(rs, f) # pageOf(rows, filters))
  IN  IF runs /\ f.page # pageOf(rs, f)
      THEN filtersReducer(f, SetPageAction(pageOf(rs, f)))
      ELSE f

PagingDid(kind, p) == lastOp' = [kind |-> kind, i |-> p, group |-> "", input |-> <<>>]

PagingInit ==
  /\ arg = <<>>
  /\ out = NotCalled
  /\ rows = <<>>
  /\ isParsing = FALSE
  /\ tab = "overview"
  /\ overviewView = "top10-profit"
  /\ toasts = <<>>
  /\ filters = initialFilters
  /\ upload = NoFile
  /\ costMap = COST_DEFAULTS
  /\ rowCostOverride = EmptyObject
  /\ stored = [k \in StorageKeys |-> JsonStringify(ValueOf(k))]
  /\ loadedRef = [k \in StorageKeys |-> TRUE]
  /\ pending = [k \in StorageKeys |-> <<>>]
  /\ mount = "ready"
  /\ strictMode = FALSE
  /\ ops = 0
  /\ lastOp = NoOp

\* onFile up to its first await, with a file that holds the sheet sh
PagingOnFile(sh) ==
  /\ ~isParsing
  /\ isParsing' = TRUE
  /\ upload' = [kind |-> "sheet", sheet |-> sh]
  /\ PagingDid("onFile", filters.page)
  /\ UNCHANGED <<arg, out, rows, tab, overviewView, toasts, filters, hookVars, ops>>

\* onFile after the file has been read: setRows, setTab("overview"),
\* setOverviewView, the toast and setIsParsing(false), rendered together
PagingOnFileDone ==
  /\ isParsing
  /\ Len(toasts) < MaxToasts
  /\ rows' = upload.sheet
  /\ tab' = "overview"
  /\ overviewView' = "top10-profit"
  /\ toasts' = Append(toasts, "success")
  /\ isParsing' = FALSE
  /\ upload' = NoFile
  /\ filters' = AfterRender(upload.sheet, "overview", filters)
  /\ PagingDid("onFileDone", filters.page)
  /\ UNCHANGED <<arg, out, hookVars, ops>>

PagingSetTab(t) ==
  /\ tab' = t
  /\ filters' = AfterRender(rows, t, filters)
  /\ PagingDid("setTab", filters.page)
  /\ UNCHANGED <<arg, out, rows, isParsing, overviewView, toasts, upload, hookVars, ops>>

\* a dispatch and the render after it
PagingDispatch(kind, action) ==
  /\ filters' = AfterRender(rows, tab, filtersReducer(filters, action))
  /\ PagingDid(kind, filtersReducer(filters, action).page)
  /\ UNCHANGED <<arg, out, rows, isParsing, tab, overviewView, toasts, upload, hookVars, ops>>

PagingSelectGroup(g) == PagingDispatch("selectGroup", SetAction("group", g))

PagingSelectPageSize(n) ==
  /\ tab = "orders"
  /\ PagingDispatch("selectPageSize", SetAction("pageSize", n))

\* the button of the previous page, disabled while page <= 1
ClickPrev ==
  /\ tab = "orders"
  /\ pageOf(rows, filters) > 1
  /\ PagingDispatch("clickPrev", SetPageAction(Max(1, pageOf(rows, filters) - 1)))

\* the button of the next page, disabled while page >= totalPages
ClickNext ==
  /\ tab = "orders"
  /\ pageOf(rows, filters) < totalPagesOf(rows, filters)
  /\ PagingDispatch("clickNext",
                    SetPageAction(IF pageOf(rows, filters) + 1 <= totalPagesOf(rows, filters)
                                  THEN pageOf(rows, filters) + 1
                                  ELSE totalPagesOf(rows, filters)))

PagingNext ==
  \/ \E sh \in PagingSheets : PagingOnFile(sh)
  \/ PagingOnFileDone
  \/ \E k \in 1..MaxToasts : RemoveToast(k)
  \/ \E t \in Tabs : PagingSetTab(t)
  \/ \E g \in {All} \cup groupOptions : PagingSelectGroup(g)
  \/ \E n \in PageSizes : PagingSelectPageSize(n)
  \/ ClickPrev
  \/ ClickNext

PagingSpec == PagingInit /\ [][PagingNext]_vars

\* C26: while the orders table is shown, after any sequence of uploads,
\* filter changes, page-size changes and previous/next clicks the state
\* settles with 1 <= filters.page <= max(1, ceil(totalRows / pageSize)), and
\* the displayed page is non-empty whenever the filtered list is non-empty.
C26_PageInRange ==
  tab = "orders" =>
    LET totalRows  == Len(listRows)
        totalPages == Max(1, (totalRows + filters.pageSize - 1) \div filters.pageSize)
    IN  /\ totalRows = totalRowsOf(rows, filters)
        /\ 1 <= filters.page
        /\ filters.page <= totalPages
        /\ totalRows > 0 => pagedRows # <<>>

\* the table is opened on a sheet of five rows while page 3 of an earlier,
\* longer sheet is still stored: the clamp effect has set the page to 1
C26_Witness ==
  /\ tab = "orders"
  /\ lastOp.kind = "setTab"
  /\ lastOp.i = 3
  /\ Len(rows) = 5
  /\ filters.page = 1
  /\ Len(pagedRows) = 5

-----------------------------------------------------------------------------
(* Properties of useLocalStorageState during the mount (Spec) *)

\* the initial values Page hands to its two useLocalStorageState hooks
InitialOf(key) == IF key = LS_COST_MAP_KEY THEN COST_DEFAULTS ELSE EmptyObject

\* a step of the mount does not write the initial value of a hook over a
\* stored document
NeverOverwritesStored ==
  \A k \in StorageKeys :
    (mount # "ready" /\ stored[k].kind = "json" /\ stored[k] # JsonStringify(InitialOf(k)))
      => stored'[k] # JsonStringify(InitialOf(k))

\* the render that ends the mount shows, for a key that had a document, the
\* table of that document (the first one the load effect queued), and the
\* document has its contents again
SettlesOnStored ==
  (mount = "effectsDone" /\ mount' = "ready") =>
    /\ pending[LS_COST_MAP_KEY] # <<>> =>
         /\ costMap' = pending[LS_COST_MAP_KEY][1]
         /\ stored'[LS_COST_MAP_KEY] = JsonStringify(pending[LS_COST_MAP_KEY][1])
    /\ pending[LS_ROW_OVERRIDE_KEY] # <<>> =>
         /\ rowCostOverride' = pending[LS_ROW_OVERRIDE_KEY][1]
         /\ stored'[LS_ROW_OVERRIDE_KEY] = JsonStringify(pending[LS_ROW_OVERRIDE_KEY][1])

\* once the page is mounted each document is the value of its hook
WrittenThrough ==
  mount' = "ready" =>
    /\ stored'[LS_COST_MAP_KEY] = JsonStringify(costMap')
    /\ stored'[LS_ROW_OVERRIDE_KEY] = JsonStringify(rowCostOverride')

\* C27: during the mount of useLocalStorageState, also when the effects run
\* twice, the persist effect never writes the initial value over a stored
\* document; once the mount has settled the value and the document are those
\* stored before the mount; afterwards every state change is written to
\* storage.
C27_SurvivesMount ==
  [][NeverOverwritesStored /\ SettlesOnStored /\ WrittenThrough]_vars

\* the same without the first part, for a mount that runs its effects once
C27_SettlesWhenMountedOnce ==
  [][~strictMode => (SettlesOnStored /\ WrittenThrough)]_vars

\* the value and the document agree once the page is mounted, in both modes
C27_WrittenThrough == [][WrittenThrough]_vars

\* the stored table is shown after a mount that runs its effects twice
C27_SettlesWhenMountedTwice == [][strictMode => SettlesOnStored]_vars

C27_NeverOverwritten == [][NeverOverwritesStored]_vars

-----------------------------------------------------------------------------
(* The two cost tables (Spec) *)

\* the unit cost of row r under a cost table cm and an override table ov: the
\* override of its identifier when that is a finite number, else the default
\* of its category, 0 when that is absent or not a finite number
EffectiveCost(r, cm, ov) ==
  LET o == Get(ov, rowId(r))
      d == Get(cm, r.titleGroup)
  IN  IF NumberIsFinite(o) THEN o
      ELSE IF NumberIsFinite(d) THEN d
      ELSE JsNum(0)

\* a step of a handler of the override table: the cost table is unchanged,
\* and so is the unit cost of every row of another identifier (after "clear
\* all": of every row that had no finite override)
OverrideEditFrame ==
  lastOp'.kind \in {"editOverride", "restoreOverride", "clearOverrides"} =>
    /\ costMap' = costMap
    /\ \A j \in 1..Len(rows) :
         LET touched == IF lastOp'.kind = "clearOverrides"
                        THEN NumberIsFinite(Get(rowCostOverride, rowId(rows[j])))
                        ELSE rowId(rows[j]) = rowId(rows[lastOp'.i])
         IN  ~touched => EffectiveCost(rows[j], costMap', rowCostOverride')
                           = EffectiveCost(rows[j], costMap, rowCostOverride)

\* a step of the cost input of category g: the override table and the
\* default of every other category are unchanged, and the unit cost changes
\* only for rows of g without a finite override
CategoryEditFrame ==
  lastOp'.kind = "editCategoryCost" =>
    /\ rowCostOverride' = rowCostOverride
    /\ \A g \in (DOMAIN costMap \cup DOMAIN costMap') \ {lastOp'.group} :
         Get(costMap', g) = Get(costMap, g)
    /\ \A j \in 1..Len(rows) :
         EffectiveCost(rows[j], costMap', rowCostOverride')
             # EffectiveCost(rows[j], costMap, rowCostOverride)
           => /\ rows[j].titleGroup = lastOp'.group
              /\ ~NumberIsFinite(Get(rowCostOverride, rowId(rows[j])))

\* C28: setting, changing or clearing a per-record override, or clearing all
\* overrides, leaves the category-default cost table unchanged and the unit
\* cost of every row of another identifier unchanged; editing the default
\* cost of category g leaves the override table and the default of every
\* other category unchanged and changes the unit cost only of rows of g
\* without a finite override; no other handler changes either table.
C28_IndependentTables ==
  /\ [](\A i \in 1..Len(rows) :
          costPerLotForRow(rows[i]) = EffectiveCost(rows[i], costMap, rowCostOverride))
  /\ [][ ops' # ops =>
           /\ rows' = rows
                \/ lastOp'.kind \notin {"editOverride", "restoreOverride",
                                        "clearOverrides", "editCategoryCost"}
           /\ OverrideEditFrame
           /\ CategoryEditFrame
           /\ lastOp'.kind \notin {"editOverride", "restoreOverride",
                                   "clearOverrides", "editCategoryCost"}
                => (costMap' = costMap /\ rowCostOverride' = rowCostOverride) ]_vars

\* the default of "RR Only" has been set to 1.5: the row of that category
\* costs 1.5 a lot now, while the row with an override of 1.5 for another
\* category keeps it and the default of that category is what it was
C28_Witness ==
  /\ lastOp.kind = "editCategoryCost"
  /\ lastOp.group = "RR Only"
  /\ Get(costMap, "RR Only") = JsNum(150)
  /\ Get(costMap, "Master Ball") = JsNum(70)
  /\ \E i \in 1..Len(rows) :
       /\ rows[i].titleGroup = "RR Only"
       /\ costPerLotForRow(rows[i]) = JsNum(150)
  /\ \E j \in 1..Len(rows) :
       /\ rows[j].titleGroup = "Master Ball"
       /\ Get(rowCostOverride, rowId(rows[j])) = JsNum(150)

-----------------------------------------------------------------------------
(* The labels of the classifier and the keys of the default cost table *)

\* C29: in each version of the page every label classifyTitleGroup returns
\* is a key of that version's COST_DEFAULTS, so that no classified row takes
\* its default through the fallback for a category absent from the table.
C29_LabelsHaveDefaults ==
  (arg.fn = "classifyTitleGroup" /\ out.called) =>
    /\ out.v.page \in DOMAIN COST_DEFAULTS
    /\ out.v.part001 \in COST_DEFAULTS_part001

\* the same for src/app/page.tsx alone, with every label of its rule list
C29_PageLabelsHaveDefaults ==
  /\ (arg.fn = "classifyTitleGroup" /\ out.called) => out.v.page \in DOMAIN COST_DEFAULTS
  /\ \A i \in 1..Len(TitleRules(Has(<<>>))) :
       TitleRules(Has(<<>>))[i].name \in DOMAIN COST_DEFAULTS
  /\ "Other" \in DOMAIN COST_DEFAULTS

-----------------------------------------------------------------------------
(* The totals of the KPI cards.  The page is followed from the orders tab   *)
(* of a loaded sheet with two single-lot orders that have a payout: the     *)
(* user types costs, among them 1e308 and -1e308, and picks payout dates.   *)

\* "Sealed box", a single lot with a payout of 40
RawSealedBox ==
  RawRow(<<"C","1">>, <<"S","e","a","l","e","d"," ","b","o","x">>,
         Cards, Paid, JsNum(100), JsNum(900), JsNum(4000),
         DateOf(2024, 1, 5, 0), DateOf(2024, 1, 12, 0))

KpiSheet == <<RawMystery, RawSealedBox, RawRROnly, RawRRVmax>>

\* what the user types into a cost input here
KpiCostInputs == CostInputs \cup { <<"-","1","e","3","0","8">> }

\* the page after mounting on an empty store, loading KpiSheet, closing the
\* toast and opening the orders tab
KpiInit ==
  /\ arg = <<>>
  /\ out = NotCalled
  /\ rows = mapRawRowsToRows(KpiSheet)
  /\ isParsing = FALSE
  /\ tab = "orders"
  /\ overviewView = "top10-profit"
  /\ toasts = <<>>
  /\ filters = initialFilters
  /\ upload = NoFile
  /\ costMap = COST_DEFAULTS
  /\ rowCostOverride = EmptyObject
  /\ stored = [k \in StorageKeys |-> JsonStringify(ValueOf(k))]
  /\ loadedRef = [k \in StorageKeys |-> TRUE]
  /\ pending = [k \in StorageKeys |-> <<>>]
  /\ mount = "ready"
  /\ strictMode = FALSE
  /\ ops = 0
  /\ lastOp = NoOp

KpiNext ==
  \/ \E i \in 1..Len(rows), input \in KpiCostInputs : EditOverride(i, input)
  \/ \E i \in 1..Len(rows) : RestoreOverride(i)
  \/ \E key \in {"payoutStartYmd", "payoutEndYmd"} : PickDate(key)
  \/ \E t \in {"orders", "costs"} : SetTab(t)
  \/ \E g \in {"Sealed", "Other"}, input \in KpiCostInputs : EditCategoryCost(g, input)

KpiSpec == KpiInit /\ [][KpiNext]_vars

\* the payout-windowed rows with a recorded payout, whose cost is counted
CountedRows == { i \in 1..Len(payoutRows) : payoutRows[i].payoutCny # 0 }

\* two counted rows carry costs of the order of 1e308 or beyond, of opposite
\* signs
OpposedHugeCosts ==
  \E i, j \in CountedRows :
    /\ totalCostOf(payoutRows[i]).t \in {"big", "inf"}
    /\ totalCostOf(payoutRows[j]).t \in {"big", "inf"}
    /\ totalCostOf(payoutRows[i]).n > 0
    /\ totalCostOf(payoutRows[j]).n < 0

\* margin = totalProfit / payoutCny when payoutCny > 0 and 0 otherwise
MarginGuarded(k) ==
  /\ k.margin.den # 0
  /\ k.margin = IF k.payoutCny > 0
                THEN [num |-> k.totalProfit, den |-> k.payoutCny]
                ELSE [num |-> JsNum(0), den |-> 1]

====
